---------------------------- MODULE Spec2Model ----------------------------
(***************************************************************************)
(* RealityCheck: the NLP analysis pipeline (SentimentAnalyzer,             *)
(* DistortionDetector, RageDetector, NLPPipeline) and the ScrollProfiler.  *)
(*                                                                         *)
(* Fractions are carried in hundredths: a weight of 0.8 is 80, a           *)
(* confidence of 1 is 100.  Times are in milliseconds.                     *)
(*                                                                         *)
(* A text is represented by what the JavaScript string and regular         *)
(* expression primitives report about it (String.match counts per          *)
(* pattern, letter counts, keyword hits, String.trim emptiness) and by     *)
(* what the external sentiment classifier answers for it.                  *)
(***************************************************************************)
EXTENDS Integers, Sequences, FiniteSets, TLC

---------------------------------------------------------------------------
(* Bounds of the model                                                     *)

\* longest batch handed to analyzeBatch
MaxBatch == 2

\* longest list of analyses a caller collects for aggregateAnalyses
MaxAnalyses == 2

\* most rules a caller adds with addRule
MaxAdded == 2

\* most detection results a caller keeps
MaxDetected == 2

\* number of model loads the environment lets fail one after the other
MaxLoads == 3

\* last clock reading (ms) of the scroll profiler's environment
MaxTime == 300

\* capacity of the scroll history; the source keeps 100 samples
\* (scroll-profiler.ts:17), the model keeps the same ring with fewer slots
SCROLL_HISTORY_LIMIT == 3

\* most samples of the last ten seconds in a history handed to the rage
\* queries
MaxSamples == 12

\* most samples older than that in such a history
MaxStale == 2

\* most initialize() calls of the content script on one page
MaxInitializes == 2

\* most timestamps in the scroll history of the content script's profiler
MaxItems == 2

\* the tabs the background script hears from
MaxTabs == 2

\* most sessions started in the background script
MaxSessions == 3

\* longest indicator list handed to calculateRageRisk
MaxIndicators == 3

\* the content script's clock stops after that many steps
MaxSteps == 4

---------------------------------------------------------------------------
(* Program constants                                                       *)

MaxRetries == 30
POLL_INTERVAL_MS == 1000
RAPID_SCROLL_THRESHOLD == 1000
SCROLL_TIMEOUT_MS == 150

\* the window of isRageScrolling and getRageScrollIntensity
RAGE_WINDOW_MS == 10000

\* clearOldContent and clearOldHistory: olderThanMs
RETENTION_MS == 300000

\* setupCleanup: the period of the cleanup interval
CLEANUP_INTERVAL_MS == 300000

\* the content script's clock advances in steps of half the retention
StepMs == RETENTION_MS \div 2

\* the clock advances in steps of a third of the debounce window
TickMs == SCROLL_TIMEOUT_MS \div 3

\* scroll offsets the page can be at
Positions == {0, 2 * TickMs}

---------------------------------------------------------------------------
(* Small helpers                                                           *)

Min(a, b) == IF a < b THEN a ELSE b

Max(a, b) == IF a > b THEN a ELSE b

Abs(a) == IF a < 0 THEN -a ELSE a

\* a number as an exact fraction
Fraction(num, den) == [num |-> num, den |-> den]

RECURSIVE SumSeq(_)
SumSeq(s) == IF s = << >> THEN 0 ELSE Head(s) + SumSeq(Tail(s))

RECURSIVE MaxSeq(_)
MaxSeq(s) == IF s = << >> THEN 0 ELSE Max(Head(s), MaxSeq(Tail(s)))

\* Array.prototype.sort with comparator (a, b) => b.key - a.key: stable,
\* descending by key.  The elements travel as <<key, element>> pairs; the
\* pair at index i goes behind the pairs with a larger key and behind the
\* earlier pairs with the same key.
rankDesc(ps, i) ==
    1 + Cardinality({j \in 1 .. Len(ps) :
                        \/ ps[j][1] > ps[i][1]
                        \/ (ps[j][1] = ps[i][1] /\ j < i)})

SortDescPairs(ps) ==
    [k \in 1 .. Len(ps) |-> ps[CHOOSE i \in 1 .. Len(ps) : rankDesc(ps, i) = k]]

---------------------------------------------------------------------------
(* Texts                                                                   *)

\* null / undefined
Null == [isNull |-> TRUE]

\* the classifier call rejects
Throws == [throws |-> TRUE]

\* The rule table of DistortionDetector.initializeRules
InitialRules ==
  <<[ruleId |-> "persecution_watching", weight |-> 80, category |-> "PERSECUTION", enabled |-> TRUE],
    [ruleId |-> "persecution_targeting", weight |-> 90, category |-> "PERSECUTION", enabled |-> TRUE],
    [ruleId |-> "persecution_control", weight |-> 70, category |-> "PERSECUTION", enabled |-> TRUE],
    [ruleId |-> "conspiracy_deep_state", weight |-> 60, category |-> "CONSPIRACY", enabled |-> TRUE],
    [ruleId |-> "conspiracy_planned", weight |-> 70, category |-> "CONSPIRACY", enabled |-> TRUE],
    [ruleId |-> "conspiracy_sheep", weight |-> 50, category |-> "CONSPIRACY", enabled |-> TRUE],
    [ruleId |-> "grandiosity_chosen", weight |-> 60, category |-> "GRANDIOSITY", enabled |-> TRUE],
    [ruleId |-> "grandiosity_superior", weight |-> 70, category |-> "GRANDIOSITY", enabled |-> TRUE],
    [ruleId |-> "grandiosity_genius", weight |-> 40, category |-> "GRANDIOSITY", enabled |-> TRUE],
    [ruleId |-> "catastrophizing_end", weight |-> 60, category |-> "CATASTROPHIZING", enabled |-> TRUE],
    [ruleId |-> "catastrophizing_disaster", weight |-> 70, category |-> "CATASTROPHIZING", enabled |-> TRUE],
    [ruleId |-> "catastrophizing_worst", weight |-> 50, category |-> "CATASTROPHIZING", enabled |-> TRUE],
    [ruleId |-> "all_or_nothing_always", weight |-> 40, category |-> "ALL_OR_NOTHING", enabled |-> TRUE],
    [ruleId |-> "all_or_nothing_perfect", weight |-> 50, category |-> "ALL_OR_NOTHING", enabled |-> TRUE],
    [ruleId |-> "mind_reading_think", weight |-> 60, category |-> "MIND_READING", enabled |-> TRUE],
    [ruleId |-> "mind_reading_judging", weight |-> 70, category |-> "MIND_READING", enabled |-> TRUE],
    [ruleId |-> "fortune_telling_will", weight |-> 50, category |-> "FORTUNE_TELLING", enabled |-> TRUE],
    [ruleId |-> "fortune_telling_never", weight |-> 60, category |-> "FORTUNE_TELLING", enabled |-> TRUE]>>

\* The pattern table of RageDetector.initializePatterns, in table order
RagePatterns ==
  <<[type |-> "VERBAL_AGGRESSION", weight |-> 70],
    [type |-> "VERBAL_AGGRESSION", weight |-> 60],
    [type |-> "VERBAL_AGGRESSION", weight |-> 50],
    [type |-> "THREAT_LANGUAGE", weight |-> 100],
    [type |-> "THREAT_LANGUAGE", weight |-> 90],
    [type |-> "THREAT_LANGUAGE", weight |-> 80],
    [type |-> "VERBAL_AGGRESSION", weight |-> 80],
    [type |-> "VERBAL_AGGRESSION", weight |-> 60]>>

\* A text with nothing in it for any detector; the texts below override
\* the fields that differ.
\*   blank          text.trim() is empty
\*   chars          text.length
\*   ruleHits       matches of each distortion rule's pattern (by ruleId)
\*   rageHits       matches of each rage pattern (by index in RagePatterns)
\*   letters, capitals, capsSequences   counts of /[A-Za-z]/, /[A-Z]/, /[A-Z]{3,}/
\*   exclamations   lengths of the runs matched by /!+/
\*   profanity      total matches of the three profanity patterns
\*   highArousal, lowArousal, positive, negative   keywords of each list present
\*   intensifier    some intensity word is present
\*   model          what the external classifier returns for the text, or Throws
PlainText ==
  [blank |-> FALSE,
   ruleHits |-> [r \in {} |-> 0],
   rageHits |-> [p \in {} |-> 0],
   chars |-> 21,
   letters |-> 17, capitals |-> 0, capsSequences |-> 0,
   exclamations |-> << >>,
   profanity |-> 0,
   highArousal |-> 0, lowArousal |-> 0, positive |-> 0, negative |-> 0,
   intensifier |-> FALSE,
   model |-> [label |-> "POSITIVE", score |-> 80]]

\* 1  "they are all watching me and tracking everything I do"; the "very"
\*    inside "everything" counts as an intensity word
\* 2  "I HATE YOU!!! YOU ARE SO STUPID!!!"
\* 3  "what a nice day today"
\* 4  "plain words only here", on which the classifier raises an error
\* 5  "   "
\* 6  "they keep watching me, i hate it", on which the classifier raises an error
\* 7  "wake up and see the truth: a disaster is coming, stay calm and quiet"
\* ruleHits also holds the matches of the patterns of CustomRules below.
Catalogue ==
  <<[PlainText EXCEPT !.ruleHits = [r \in {"persecution_watching",
                                           "custom_watching"} |-> 1],
                      !.chars = 53,
                      !.letters = 43, !.capitals = 1,
                      !.intensifier = TRUE,
                      !.model = [label |-> "NEGATIVE", score |-> 90]],
    [PlainText EXCEPT !.ruleHits = [r \in {"custom_shout"} |-> 6],
                      !.rageHits = [p \in {1, 2} |-> 1],
                      !.chars = 34,
                      !.letters = 22, !.capitals = 22, !.capsSequences = 5,
                      !.exclamations = <<3, 3>>,
                      !.highArousal = 1,
                      !.model = [label |-> "NEGATIVE", score |-> 99]],
    [PlainText EXCEPT !.positive = 1],
    [PlainText EXCEPT !.model = Throws],
    [PlainText EXCEPT !.blank = TRUE, !.chars = 3, !.letters = 0,
                      !.model = [label |-> "POSITIVE", score |-> 50]],
    [PlainText EXCEPT !.ruleHits = [r \in {"persecution_watching",
                                           "custom_watching"} |-> 1],
                      !.rageHits = [p \in {1} |-> 1],
                      !.chars = 32,
                      !.letters = 25,
                      !.highArousal = 1,
                      !.model = Throws],
    [PlainText EXCEPT !.ruleHits = [r \in {"conspiracy_sheep",
                                           "catastrophizing_disaster"} |-> 1],
                      !.chars = 68,
                      !.letters = 53,
                      !.lowArousal = 2,
                      !.model = [label |-> "POSITIVE", score |-> 70]]>>

TextIds == 1 .. Len(Catalogue)

\* Texts of fewer than 10 characters, numbered on from the catalogue's
\* 8  "i'm above"
\* 9  "i hate u"
ShortTexts ==
  <<[PlainText EXCEPT !.ruleHits = [r \in {"grandiosity_chosen"} |-> 1],
                      !.chars = 9,
                      !.letters = 7],
    [PlainText EXCEPT !.rageHits = [p \in {1} |-> 1],
                      !.chars = 8,
                      !.letters = 6,
                      !.highArousal = 1]>>

\* A text that six built-in rules match once each (the three PERSECUTION
\* and the three CONSPIRACY rules) and no rage pattern or keyword does:
\* 10 "they are tracking me, they are after us, the system is brainwashing
\*     people: the elites run it, orchestrated by the government, wake up
\*     to the truth"
DenseText ==
    [PlainText EXCEPT !.ruleHits = [r \in {"persecution_watching",
                                           "persecution_targeting",
                                           "persecution_control",
                                           "conspiracy_deep_state",
                                           "conspiracy_planned",
                                           "conspiracy_sheep"} |-> 1],
                      !.chars = 147,
                      !.letters = 117]

TextOf(t) ==
    IF t \in TextIds THEN Catalogue[t]
    ELSE IF t - Len(Catalogue) <= Len(ShortTexts) THEN ShortTexts[t - Len(Catalogue)]
    ELSE DenseText

\* the texts of the records a caller collects
AnalysisTexts == TextIds \cup {Len(Catalogue) + Len(ShortTexts) + 1}

Batches == UNION {[1 .. n -> TextIds] : n \in 0 .. MaxBatch}

---------------------------------------------------------------------------
(* DistortionDetector                                                      *)

\* checkRule without its try and catch: the error of new RegExp leaves
\* it, which a count of -1 stands for
checkRuleUncaught(t, rule) ==
    IF rule.ruleId = "custom_broken" THEN -1
    ELSE IF rule.ruleId \in DOMAIN TextOf(t).ruleHits
    THEN TextOf(t).ruleHits[rule.ruleId] ELSE 0

\* checkRule: the matches of the rule's pattern in the text, none when
\* new RegExp(rule.pattern) raises an error, as for custom_broken's "("
checkRule(t, rule) ==
    IF rule.ruleId = "custom_broken" THEN 0
    ELSE IF rule.ruleId \in DOMAIN TextOf(t).ruleHits
    THEN TextOf(t).ruleHits[rule.ruleId] ELSE 0

\* createDistortion without the cap at 1
createDistortionUncapped(rule, matches, t) ==
    [type |-> rule.category,
     severity |-> rule.weight + Min(matches * 10, 50),
     keywords |-> matches,
     context |-> t]

\* createDistortion: keywords are the matches (their number is kept),
\* context is a snippet of the text the match came from
createDistortion(rule, matches, t) ==
    [type |-> rule.category,
     severity |-> Min(100, rule.weight + Min(matches * 10, 50)),
     keywords |-> matches,
     context |-> t]

\* the loop of detectDistortions not skipping the rules switched off
distortionLoopOfAllRules(rs, t) ==
    LET firing == SelectSeq(rs, LAMBDA rule : checkRule(t, rule) > 0)
    IN  [i \in 1 .. Len(firing) |->
            createDistortion(firing[i], checkRule(t, firing[i]), t)]

\* the loop of detectDistortions over the rule table, in table order
distortionLoop(rs, t) ==
    LET firing == SelectSeq(rs, LAMBDA rule : rule.enabled /\ checkRule(t, rule) > 0)
    IN  [i \in 1 .. Len(firing) |->
            createDistortion(firing[i], checkRule(t, firing[i]), t)]

bySeverity(ds) == [i \in 1 .. Len(ds) |-> <<ds[i].severity, ds[i]>>]

unpair(ps) == [i \in 1 .. Len(ps) |-> ps[i][2]]

detectDistortions(rs, t) == unpair(SortDescPairs(bySeverity(distortionLoop(rs, t))))

\* rules a caller hands to addRule: RuleConfig records with a ruleId of
\* their own and a weight in (0,1]; the patterns are "watching", "!" and
\* "(", which is no regular expression
CustomRules ==
    {[ruleId |-> "custom_broken", weight |-> 90, category |-> "CONSPIRACY", enabled |-> TRUE],
     [ruleId |-> "custom_watching", weight |-> 30, category |-> "PERSECUTION", enabled |-> TRUE],
     [ruleId |-> "custom_watching", weight |-> 100, category |-> "MIND_READING", enabled |-> TRUE],
     [ruleId |-> "custom_shout", weight |-> 60, category |-> "CATASTROPHIZING", enabled |-> TRUE]}

\* the texts a caller hands to the detectors between rule changes: one that
\* persecution_watching and custom_watching match, one that custom_shout and
\* the rage patterns match, and the two short ones
DetectorTexts == {1, 2, 8, 9}

\* the ruleId arguments of updateRule; no rule is called "no_such_rule"
ToggleIds == {"persecution_watching", "custom_watching", "no_such_rule"}

\* updateRule: the first rule with the id gets the flag
updateRule(rs, ruleId, enabled) ==
    LET found == {i \in 1 .. Len(rs) : rs[i].ruleId = ruleId}
    IN  IF found = {} THEN rs
        ELSE LET first == CHOOSE i \in found : \A j \in found : i <= j
             IN  [rs EXCEPT ![first].enabled = enabled]

---------------------------------------------------------------------------
(* RageDetector                                                            *)

rageMatches(t, p) ==
    IF p \in DOMAIN TextOf(t).rageHits THEN TextOf(t).rageHits[p] ELSE 0

createRageIndicator(type, matches, weight, t) ==
    [type |-> type,
     intensity |-> Min(100, weight + (matches - 1) * 10),
     context |-> t]

\* the loop of detectRageIndicators over the pattern table, in table order
ragePatternLoop(t) ==
    LET firing == SelectSeq([p \in 1 .. Len(RagePatterns) |-> p],
                            LAMBDA p : rageMatches(t, p) > 0)
    IN  [i \in 1 .. Len(firing) |->
            createRageIndicator(RagePatterns[firing[i]].type,
                                rageMatches(t, firing[i]),
                                RagePatterns[firing[i]].weight, t)]

detectCapsLock(t) ==
    LET letters == TextOf(t).letters
        capitals == TextOf(t).capitals
        capsSequences == TextOf(t).capsSequences
    IN  IF letters > 10 /\ capitals > 0
           /\ (2 * capitals > letters \/ capsSequences > 0)
        THEN <<[type |-> "CAPS_LOCK",
                intensity |-> Min(100, (capitals * 100) \div letters
                                         + capsSequences * 20),
                context |-> t]>>
        ELSE << >>

detectExclamationSpam(t) ==
    LET multiExclamations == SelectSeq(TextOf(t).exclamations, LAMBDA e : e > 1)
    IN  IF Len(multiExclamations) > 0
        THEN <<[type |-> "EXCLAMATION_SPAM",
                intensity |-> Min(100, (MaxSeq(multiExclamations) - 1) * 20
                                         + Len(multiExclamations) * 10),
                context |-> t]>>
        ELSE << >>

detectProfanity(t) ==
    IF TextOf(t).profanity > 0
    THEN <<[type |-> "PROFANITY",
            intensity |-> Min(100, TextOf(t).profanity * 30),
            context |-> t]>>
    ELSE << >>

byIntensity(rs) == [i \in 1 .. Len(rs) |-> <<rs[i].intensity, rs[i]>>]

detectRageIndicators(t) ==
    unpair(SortDescPairs(byIntensity(
        ragePatternLoop(t) \o detectCapsLock(t)
            \o detectExclamationSpam(t) \o detectProfanity(t))))

---------------------------------------------------------------------------
(* The detectors of a freshly constructed NLPPipeline, over the catalogue  *)

distortionsOf == [t \in AnalysisTexts |-> detectDistortions(InitialRules, t)]

rageIndicatorsOf == [t \in AnalysisTexts |-> detectRageIndicators(t)]

---------------------------------------------------------------------------
(* SentimentAnalyzer: pure parts                                           *)

ZeroSentiment == [valence |-> 0, arousal |-> 0, confidence |-> 0]

Clamp(lo, x, hi) == Max(lo, Min(hi, x))

\* convertResult: result.label && result.score, then the label decides
convertResult(m) ==
    LET usable == m.score # 0
        valence == IF ~usable THEN 0
                   ELSE IF m.label = "POSITIVE" THEN m.score
                   ELSE IF m.label = "NEGATIVE" THEN -m.score ELSE 0
        arousal == IF ~usable THEN 0
                   ELSE IF m.label = "POSITIVE" THEN Min((m.score * 12) \div 10, 100)
                   ELSE IF m.label = "NEGATIVE" THEN Min((m.score * 15) \div 10, 100)
                   ELSE 0
        confidence == IF usable THEN m.score ELSE 0
    IN  [valence |-> Clamp(-100, valence, 100),
         arousal |-> Clamp(0, arousal, 100),
         confidence |-> Clamp(0, confidence, 100)]

\* enhanceWithEmotionalRules without the final Math.max / Math.min
enhanceWithEmotionalRulesUnclamped(t, baseSentiment) ==
    LET arousalBoost == 20 * TextOf(t).highArousal - 15 * TextOf(t).lowArousal
        valenceBoost == 15 * TextOf(t).positive - 15 * TextOf(t).negative
        intensityBoost == IF TextOf(t).intensifier THEN 10 ELSE 0
    IN  [valence |-> baseSentiment.valence + valenceBoost,
         arousal |-> baseSentiment.arousal + arousalBoost + intensityBoost,
         confidence |-> baseSentiment.confidence]

enhanceWithEmotionalRules(t, baseSentiment) ==
    LET arousalBoost == 20 * TextOf(t).highArousal - 15 * TextOf(t).lowArousal
        valenceBoost == 15 * TextOf(t).positive - 15 * TextOf(t).negative
        intensityBoost == IF TextOf(t).intensifier THEN 10 ELSE 0
    IN  [valence |-> Clamp(-100, baseSentiment.valence + valenceBoost, 100),
         arousal |-> Clamp(0, baseSentiment.arousal + arousalBoost + intensityBoost, 100),
         confidence |-> baseSentiment.confidence]

\* what `await this.pipeline(cleanedText)` followed by convertResult and the
\* catch block of analyzeSentiment give, and analyzeEmotionalDimensions on top
scoreOne(t) ==
    IF TextOf(t).model = Throws THEN Null
    ELSE enhanceWithEmotionalRules(t, convertResult(TextOf(t).model))

\* what `await this.pipeline(cleanedTexts)` followed by results.map and the
\* catch block of SentimentAnalyzer.analyzeBatch give: one call, one try
scoreBatch(ts) ==
    IF \E i \in 1 .. Len(ts) : TextOf(ts[i]).model = Throws
    THEN [i \in 1 .. Len(ts) |-> Null]
    ELSE [i \in 1 .. Len(ts) |-> convertResult(TextOf(ts[i]).model)]

---------------------------------------------------------------------------
(* NLPPipeline: pure parts                                                 *)

\* an absent NLPAnalysis
None == [isNone |-> TRUE]

factorOf(xs, scores) ==
    IF Len(xs) > 0
    THEN <<Min(100, Len(xs) * 20 + SumSeq(scores) \div Len(xs))>>
    ELSE << >>

\* calculateConfidence dividing by all three factors, present or not
calculateConfidenceOfThree(sentiment, distortions, rageIndicators) ==
    LET sentimentFactor ==
            IF sentiment # Null /\ sentiment.confidence > 0
            THEN <<sentiment.confidence>> ELSE << >>
        factors == sentimentFactor
            \o factorOf(distortions,
                        [i \in 1 .. Len(distortions) |-> distortions[i].severity])
            \o factorOf(rageIndicators,
                        [i \in 1 .. Len(rageIndicators) |-> rageIndicators[i].intensity])
    IN  SumSeq(factors) \div 3

calculateConfidence(sentiment, distortions, rageIndicators) ==
    LET sentimentFactor ==
            IF sentiment # Null /\ sentiment.confidence > 0
            THEN <<sentiment.confidence>> ELSE << >>
        factors == sentimentFactor
            \o factorOf(distortions,
                        [i \in 1 .. Len(distortions) |-> distortions[i].severity])
            \o factorOf(rageIndicators,
                        [i \in 1 .. Len(rageIndicators) |-> rageIndicators[i].intensity])
    IN  IF Len(factors) > 0 THEN SumSeq(factors) \div Len(factors) ELSE 0

\* `sentiment || { valence: 0, arousal: 0, confidence: 0 }`
sentimentOrZero(sentiment) == IF sentiment = Null THEN ZeroSentiment ELSE sentiment

\* contentRecord giving up when there is no sentiment reading
contentRecordNeedsSentiment(sentiment, distortions, rageIndicators) ==
    IF sentiment = Null THEN None
    ELSE [sentiment |-> sentiment,
          cognitiveDistortions |-> distortions,
          rageIndicators |-> rageIndicators,
          confidence |-> calculateConfidence(sentiment, distortions, rageIndicators)]

\* the record analyzeContent returns (processingTime, a clock difference,
\* is left out of the records of the model)
contentRecord(sentiment, distortions, rageIndicators) ==
    [sentiment |-> sentimentOrZero(sentiment),
     cognitiveDistortions |-> distortions,
     rageIndicators |-> rageIndicators,
     confidence |-> calculateConfidence(sentiment, distortions, rageIndicators)]

\* sentiments[index]: undefined past the end of the array
at(arr, index) == IF index \in 1 .. Len(arr) THEN arr[index] ELSE Null

\* nothingFound with the sentiment test alone sufficing
nothingFoundEither(sentiment, distortions, rageIndicators) ==
    sentiment = Null \/ (Len(distortions) = 0 /\ Len(rageIndicators) = 0)

\* the test `!sentiment && distortions.length === 0 && rageIndicators.length === 0`
nothingFound(sentiment, distortions, rageIndicators) ==
    sentiment = Null /\ Len(distortions) = 0 /\ Len(rageIndicators) = 0

\* batchSlot reading the sentiments in the reverse order
batchSlotReversed(sents, dists, rages, index) ==
    IF nothingFound(at(sents, Len(sents) + 1 - index), dists[index], rages[index])
    THEN None
    ELSE contentRecord(at(sents, Len(sents) + 1 - index), dists[index], rages[index])

\* the slot analyzeBatch builds for position index
batchSlot(sents, dists, rages, index) ==
    IF nothingFound(at(sents, index), dists[index], rages[index])
    THEN None
    ELSE contentRecord(at(sents, index), dists[index], rages[index])

---------------------------------------------------------------------------
(* Risk scoring and aggregation                                            *)

\* the members of DistortionType, as getDistortionSummary lists them
DistortionTypes ==
    {"PERSECUTION", "GRANDIOSITY", "CONSPIRACY", "CATASTROPHIZING",
     "ALL_OR_NOTHING", "MIND_READING", "FORTUNE_TELLING"}

\* the first indicator with the greatest severity above 0, if any
mostSevereType(ds) ==
    LET top == {i \in 1 .. Len(ds) :
                   /\ ds[i].severity > 0
                   /\ \A j \in 1 .. Len(ds) :
                          \/ ds[j].severity < ds[i].severity
                          \/ (ds[j].severity = ds[i].severity /\ j >= i)}
    IN  IF top = {} THEN Null ELSE ds[CHOOSE i \in top : TRUE].type

\* getDistortionSummary counting only the categories that occur
getDistortionSummarySparse(ds) ==
    [totalSeverity |-> Min(100, SumSeq([i \in 1 .. Len(ds) |-> ds[i].severity])),
     mostSevereType |-> mostSevereType(ds),
     typeCount |-> [c \in {ds[i].type : i \in 1 .. Len(ds)} |->
                       Cardinality({i \in 1 .. Len(ds) : ds[i].type = c})]]

getDistortionSummary(ds) ==
    [totalSeverity |-> Min(100, SumSeq([i \in 1 .. Len(ds) |-> ds[i].severity])),
     mostSevereType |-> mostSevereType(ds),
     typeCount |-> [c \in DistortionTypes |->
                       Cardinality({i \in 1 .. Len(ds) : ds[i].type = c})]]

\* calculateDistortionRisk on contexts.join(' '), in two-hundredths.  The
\* contexts of a record are snippets of the one text it is about, each no
\* shorter than a catalogue text, so a pattern matches in the joined text
\* as often as in the snippet it matches most in.
calculateDistortionRisk(rs, contexts) ==
    LET matches(rule) ==
            MaxSeq([i \in 1 .. Len(contexts) |-> checkRule(contexts[i], rule)])
        firing == SelectSeq(rs, LAMBDA rule : rule.enabled /\ matches(rule) > 0)
        distortions ==
            unpair(SortDescPairs(bySeverity(
                [i \in 1 .. Len(firing) |->
                    createDistortion(firing[i], matches(firing[i]), contexts)])))
        summary == getDistortionSummary(distortions)
        typeWeights ==
            [c \in DistortionTypes |->
                CASE c = "PERSECUTION" -> 9
                  [] c = "CONSPIRACY" -> 8
                  [] c = "GRANDIOSITY" -> 6
                  [] c = "CATASTROPHIZING" -> 7
                  [] c = "ALL_OR_NOTHING" -> 5
                  [] c = "MIND_READING" -> 6
                  [] c = "FORTUNE_TELLING" -> 5]
        types == [i \in 1 .. Len(distortions) |-> distortions[i].type]
        \* the sum over the categories of count * weight * 0.1, in hundredths
        weightedRisk == SumSeq([i \in 1 .. Len(types) |-> typeWeights[types[i]]])
    IN  Min(200, 2 * weightedRisk + summary.totalSeverity)

\* calculateRageRisk without the division by 2
calculateRageRiskUndamped(indicators) ==
    LET typeWeights(type) ==
            CASE type = "VERBAL_AGGRESSION" -> 9
              [] type = "THREAT_LANGUAGE" -> 10
              [] type = "PROFANITY" -> 6
              [] type = "CAPS_LOCK" -> 4
              [] type = "EXCLAMATION_SPAM" -> 3
              [] OTHER -> 5
        totalRisk == SumSeq([i \in 1 .. Len(indicators) |->
                                indicators[i].intensity * typeWeights(indicators[i].type)])
    IN  IF Len(indicators) = 0 THEN 0 ELSE Min(2000, 2 * totalRisk)

\* calculateRageRisk, in two-thousandths
calculateRageRisk(indicators) ==
    LET typeWeights(type) ==
            CASE type = "VERBAL_AGGRESSION" -> 9
              [] type = "THREAT_LANGUAGE" -> 10
              [] type = "PROFANITY" -> 6
              [] type = "CAPS_LOCK" -> 4
              [] type = "EXCLAMATION_SPAM" -> 3
              [] OTHER -> 5
        totalRisk == SumSeq([i \in 1 .. Len(indicators) |->
                                indicators[i].intensity * typeWeights(indicators[i].type)])
    IN  IF Len(indicators) = 0 THEN 0 ELSE Min(2000, totalRisk)

\* sentimentRisk without its floor at 0
sentimentRiskUnfloored(sentiment) == sentiment.arousal - sentiment.valence

\* sentimentRisk = max(0, (-valence + arousal) / 2), in two-hundredths
sentimentRisk(sentiment) == Max(0, sentiment.arousal - sentiment.valence)

\* calculateRiskScore of the pipeline (whose detector keeps the rule table
\* it was built with): 0.3, 0.4 and 0.3 of the three risks, over 20000
calculateRiskScore(analysis) ==
    LET distortionRisk ==
            calculateDistortionRisk(InitialRules,
                [i \in 1 .. Len(analysis.cognitiveDistortions) |->
                    analysis.cognitiveDistortions[i].context])
        rageRisk == calculateRageRisk(analysis.rageIndicators)
        riskScore == 30 * sentimentRisk(analysis.sentiment)
                       + 40 * distortionRisk + 3 * rageRisk
    IN  Fraction(Min(20000, riskScore), 20000)

\* Array.prototype.flatMap over lists
RECURSIVE Flatten(_)
Flatten(lists) == IF lists = << >> THEN << >> ELSE Head(lists) \o Flatten(Tail(lists))

\* aggregateAnalyses averaging the processing times too
aggregateAnalysesMeanTime(as) ==
    LET n == Len(as)
        mean(f(_)) == Fraction(SumSeq([i \in 1 .. n |-> f(as[i])]), n)
        valence(a) == a.sentiment.valence
        arousal(a) == a.sentiment.arousal
        sentimentConfidence(a) == a.sentiment.confidence
        confidence(a) == a.confidence
    IN  IF n = 0
        THEN [sentiment |-> [valence |-> Fraction(0, 1), arousal |-> Fraction(0, 1),
                             confidence |-> Fraction(0, 1)],
              cognitiveDistortions |-> << >>,
              rageIndicators |-> << >>,
              confidence |-> Fraction(0, 1),
              processingTime |-> 0]
        ELSE [sentiment |-> [valence |-> mean(valence), arousal |-> mean(arousal),
                             confidence |-> mean(sentimentConfidence)],
              cognitiveDistortions |-> Flatten([i \in 1 .. n |-> as[i].cognitiveDistortions]),
              rageIndicators |-> Flatten([i \in 1 .. n |-> as[i].rageIndicators]),
              confidence |-> mean(confidence),
              processingTime |-> SumSeq([i \in 1 .. n |-> as[i].processingTime]) \div n]

\* aggregateAnalyses; the means are kept as exact fractions
aggregateAnalyses(as) ==
    LET n == Len(as)
        mean(f(_)) == Fraction(SumSeq([i \in 1 .. n |-> f(as[i])]), n)
        valence(a) == a.sentiment.valence
        arousal(a) == a.sentiment.arousal
        sentimentConfidence(a) == a.sentiment.confidence
        confidence(a) == a.confidence
    IN  IF n = 0
        THEN [sentiment |-> [valence |-> Fraction(0, 1), arousal |-> Fraction(0, 1),
                             confidence |-> Fraction(0, 1)],
              cognitiveDistortions |-> << >>,
              rageIndicators |-> << >>,
              confidence |-> Fraction(0, 1),
              processingTime |-> 0]
        ELSE [sentiment |-> [valence |-> mean(valence), arousal |-> mean(arousal),
                             confidence |-> mean(sentimentConfidence)],
              cognitiveDistortions |-> Flatten([i \in 1 .. n |-> as[i].cognitiveDistortions]),
              rageIndicators |-> Flatten([i \in 1 .. n |-> as[i].rageIndicators]),
              confidence |-> mean(confidence),
              processingTime |-> SumSeq([i \in 1 .. n |-> as[i].processingTime])]

\* getAnalysisSummary of a record whose sentiment fields are fractions
\* over one denominator n; riskScore is calculateRiskScore over 20000 n.
\* The sentiment category is kept as its two parts and a distortion
\* concern as the type it names.
getAnalysisSummary(analysis) ==
    LET n == analysis.sentiment.arousal.den
        valence == analysis.sentiment.valence.num
        arousal == analysis.sentiment.arousal.num
        distortionRisk ==
            calculateDistortionRisk(InitialRules,
                [i \in 1 .. Len(analysis.cognitiveDistortions) |->
                    analysis.cognitiveDistortions[i].context])
        rageRisk == calculateRageRisk(analysis.rageIndicators)
        riskScore ==
            Min(20000 * n,
                30 * sentimentRisk([valence |-> valence, arousal |-> arousal])
                  + n * (40 * distortionRisk + 3 * rageRisk))
        riskLevel == IF riskScore > 14000 * n THEN "high"
                     ELSE IF riskScore > 8000 * n THEN "medium"
                     ELSE "low"
    IN  [sentimentCategory |->
             [polarity |-> IF valence > 30 * n THEN "positive"
                           ELSE IF valence < -30 * n THEN "negative"
                           ELSE "neutral",
              highArousal |-> arousal > 60 * n],
         riskLevel |-> riskLevel,
         primaryConcerns |->
             (IF Len(analysis.cognitiveDistortions) > 0
              THEN <<analysis.cognitiveDistortions[1].type>> ELSE << >>)
             \o (IF Len(analysis.rageIndicators) > 0
                 THEN <<"aggressive language patterns">> ELSE << >>)
             \o (IF arousal > 80 * n
                 THEN <<"high emotional intensity">> ELSE << >>),
         recommendations |->
             IF riskLevel = "high" THEN <<"break", "grounding">>
             ELSE IF riskLevel = "medium" THEN <<"mindful", "diversify">>
             ELSE << >>]

\* what analyzeEmotionalDimensions can give for text t: its reading, or
\* null while the classifier is not loaded
Readings(t) == {scoreOne(t), Null}

\* values of Date.now() - startTime
ProcessingTimes == {3, 8}

\* the NLPAnalysis analyzeContent returns for text t, reading included
analysisOf(t, sentiment, processingTime) ==
    LET r == contentRecord(sentiment, distortionsOf[t], rageIndicatorsOf[t])
    IN  [sentiment |-> r.sentiment,
         cognitiveDistortions |-> r.cognitiveDistortions,
         rageIndicators |-> r.rageIndicators,
         confidence |-> r.confidence,
         processingTime |-> processingTime]

---------------------------------------------------------------------------
(* State                                                                   *)

VARIABLES
    \* SentimentAnalyzer
    pipeline,          \* "null" or "model": the loaded classifier
    isLoading,
    isReady,
    loadOwner,         \* who awaits the load in flight: "ctor" or "call"
    loadsStarted,      \* loads begun so far
    \* NLPPipeline
    isInitialized,
    \* the analyzeContent / analyzeBatch call in progress
    pc,                \* position of the call
    kind,              \* "content" or "batch"
    input,             \* the texts of the call (one for analyzeContent)
    retries,           \* local of initialize
    initWaitMs,        \* time initialize has slept
    sentiments,        \* what the sentiment analyzer returned
    distortionResults,
    rageResults,
    result,            \* what the call returns
    \* ScrollProfiler
    scrollHistory,
    lastScrollPosition,
    lastScrollTime,
    isScrolling,
    scrollTimeout,     \* id of the pending debounce timer, 0 for null
    dwellStartTime,
    rapidScrollCount,
    isActive,
    \* the page the profiler runs in
    now,               \* Date.now()
    pageYOffset,
    visibilityState,
    timers,            \* pending setTimeout entries
    visibilityListener, \* a visibilitychange listener is registered
    \* history of the anchors lastScrollPosition / lastScrollTime: the
    \* operation that set them last ("init", "start", "scroll", "resume"),
    \* or "stale" once time has passed with the page hidden since then
    anchorAge,
    \* a DistortionDetector of its own (not the one inside NLPPipeline)
    rules,             \* its rule table
    detected,          \* what its detectDistortions calls returned, oldest first
    \* calls of the synchronous query functions
    analyses,          \* the NLPAnalysis list a caller holds
    answer,            \* what the last query returned
    \* the extension around the engine
    script,            \* RealityCheckContentScript and the page's clock, intervals and stores
    background         \* RealityCheckBackground, chrome.storage.local and its handlers

analyzerVars == <<pipeline, isLoading, isReady, loadOwner, loadsStarted>>

callVars == <<pc, kind, input, retries, initWaitMs, sentiments,
              distortionResults, rageResults, result>>

pipelineVars == <<analyzerVars, isInitialized, callVars>>

profilerVars == <<scrollHistory, lastScrollPosition, lastScrollTime, isScrolling,
                  scrollTimeout, dwellStartTime, rapidScrollCount, isActive>>

pageVars == <<now, pageYOffset, visibilityState, timers, visibilityListener,
              anchorAge>>

scrollVars == <<profilerVars, pageVars>>

detectorVars == <<rules, detected>>

queryVars == <<analyses, answer>>

extensionVars == <<script, background>>

apiVars == <<detectorVars, queryVars, extensionVars>>

vars == <<pipelineVars, scrollVars, apiVars>>

---------------------------------------------------------------------------
(* NLPPipeline and SentimentAnalyzer: construction                         *)

\* new NLPPipeline(): the SentimentAnalyzer constructor starts the first
\* model load and does not await it
PipelineInit ==
    /\ pipeline = "null"
    /\ isLoading = TRUE
    /\ isReady = FALSE
    /\ loadOwner = "ctor"
    /\ loadsStarted = 1
    /\ isInitialized = FALSE
    /\ pc = "idle"
    /\ kind = "content"
    /\ input = << >>
    /\ retries = 0
    /\ initWaitMs = 0
    /\ sentiments = << >>
    /\ distortionResults = << >>
    /\ rageResults = << >>
    /\ result = << >>

---------------------------------------------------------------------------
(* SentimentAnalyzer.initializePipeline: completion of the load            *)

\* the continuation of whoever awaited the load
resumeAfterLoad ==
    pc' = IF loadOwner = "call" /\ pc = "awaitLoad" THEN "sentCheck" ELSE pc

\* `this.pipeline = await pipeline(...)` resolves
LoadSucceeds ==
    /\ isLoading
    /\ pipeline' = "model"
    /\ isReady' = TRUE
    /\ isLoading' = FALSE
    /\ resumeAfterLoad
    /\ UNCHANGED <<loadOwner, loadsStarted, isInitialized, kind, input, retries,
                   initWaitMs, sentiments, distortionResults, rageResults, result>>
    /\ UNCHANGED scrollVars
    /\ UNCHANGED apiVars

\* `await pipeline(...)` rejects: the catch block, then finally
LoadFails ==
    /\ isLoading
    /\ loadsStarted < MaxLoads
    /\ isReady' = FALSE
    /\ isLoading' = FALSE
    /\ resumeAfterLoad
    /\ UNCHANGED <<pipeline, loadOwner, loadsStarted, isInitialized, kind, input,
                   retries, initWaitMs, sentiments, distortionResults,
                   rageResults, result>>
    /\ UNCHANGED scrollVars
    /\ UNCHANGED apiVars

---------------------------------------------------------------------------
(* NLPPipeline.initialize                                                  *)

\* pollAgain with the budget test off by one
pollAgainOffByOne(ready, n) == ~ready /\ n <= MaxRetries

\* the loop test `!isAnalyzerReady() && retries < 30`
pollAgain(ready, n) == ~ready /\ n < MaxRetries

\* the loop test with n retries behind it; leaving the loop sets isInitialized
initLoop(n) ==
    IF pollAgain(isReady, n)
    THEN /\ pc' = "initSleep"
         /\ UNCHANGED isInitialized
    ELSE /\ pc' = "run"
         /\ isInitialized' = TRUE

\* a caller invokes analyzeContent (one text) or analyzeBatch
Call(k, ts) ==
    /\ pc = "idle"
    /\ kind' = k
    /\ input' = ts
    /\ retries' = 0
    /\ initWaitMs' = 0
    /\ sentiments' = << >>
    /\ distortionResults' = << >>
    /\ rageResults' = << >>
    /\ result' = << >>
    /\ IF isInitialized
       THEN pc' = "run" /\ UNCHANGED isInitialized
       ELSE initLoop(0)
    /\ UNCHANGED analyzerVars
    /\ UNCHANGED scrollVars
    /\ UNCHANGED apiVars

AnalyzeContentCall == \E t \in TextIds : Call("content", <<t>>)

AnalyzeBatchCall == \E ts \in Batches : Call("batch", ts)

\* the one-second timer of the polling loop fires
InitWake ==
    /\ pc = "initSleep"
    /\ retries' = retries + 1
    /\ initWaitMs' = initWaitMs + POLL_INTERVAL_MS
    /\ initLoop(retries + 1)
    /\ UNCHANGED <<analyzerVars, kind, input, sentiments, distortionResults,
                   rageResults, result>>
    /\ UNCHANGED scrollVars
    /\ UNCHANGED apiVars

---------------------------------------------------------------------------
(* analyzeContent / analyzeBatch after initialization                      *)

\* the synchronous part of the try block: the sentiment analyzer is entered
\* (analyzeSentiment / analyzeBatch up to their first await) and the two
\* rule-based detectors run
Run ==
    /\ pc = "run"
    /\ IF kind = "batch" /\ Len(input) = 0
       THEN /\ result' = << >>
            /\ pc' = "done"
            /\ UNCHANGED <<analyzerVars, distortionResults, rageResults>>
       ELSE /\ distortionResults' =
                  [i \in 1 .. Len(input) |-> distortionsOf[input[i]]]
            /\ rageResults' = [i \in 1 .. Len(input) |-> rageIndicatorsOf[input[i]]]
            /\ IF ~isReady /\ ~isLoading
               THEN \* initializePipeline starts a load and awaits it
                    /\ isLoading' = TRUE
                    /\ loadOwner' = "call"
                    /\ loadsStarted' = loadsStarted + 1
                    /\ pc' = "awaitLoad"
                    /\ UNCHANGED <<pipeline, isReady>>
               ELSE \* ready, or initializePipeline returns at once
                    /\ pc' = "sentCheck"
                    /\ UNCHANGED analyzerVars
            /\ UNCHANGED result
    /\ UNCHANGED <<isInitialized, kind, input, retries, initWaitMs, sentiments>>
    /\ UNCHANGED scrollVars
    /\ UNCHANGED apiVars

\* the test `!this.pipeline || !text.trim()` of analyzeSentiment, resp.
\* `!this.pipeline || texts.length === 0` of analyzeBatch
SentCheck ==
    /\ pc = "sentCheck"
    /\ IF kind = "content"
       THEN IF pipeline = "null" \/ TextOf(input[1]).blank
            THEN sentiments' = <<Null>> /\ pc' = "join"
            ELSE pc' = "scoring" /\ UNCHANGED sentiments
       ELSE IF pipeline = "null" \/ Len(input) = 0
            THEN sentiments' = << >> /\ pc' = "join"
            ELSE pc' = "scoring" /\ UNCHANGED sentiments
    /\ UNCHANGED <<analyzerVars, isInitialized, kind, input, retries, initWaitMs,
                   distortionResults, rageResults, result>>
    /\ UNCHANGED scrollVars
    /\ UNCHANGED apiVars

\* the classifier call settles
Scored ==
    /\ pc = "scoring"
    /\ sentiments' = IF kind = "content" THEN <<scoreOne(input[1])>>
                     ELSE scoreBatch(input)
    /\ pc' = "join"
    /\ UNCHANGED <<analyzerVars, isInitialized, kind, input, retries, initWaitMs,
                   distortionResults, rageResults, result>>
    /\ UNCHANGED scrollVars
    /\ UNCHANGED apiVars

\* Promise.all resolves; the result is built and returned
Join ==
    /\ pc = "join"
    /\ result' = IF kind = "content"
                 THEN <<contentRecord(sentiments[1], distortionResults[1], rageResults[1])>>
                 ELSE [i \in 1 .. Len(input) |->
                          batchSlot(sentiments, distortionResults, rageResults, i)]
    /\ pc' = "done"
    /\ UNCHANGED <<analyzerVars, isInitialized, kind, input, retries, initWaitMs,
                   sentiments, distortionResults, rageResults>>
    /\ UNCHANGED scrollVars
    /\ UNCHANGED apiVars

\* the caller has the result
Return ==
    /\ pc = "done"
    /\ pc' = "idle"
    /\ UNCHANGED <<analyzerVars, isInitialized, kind, input, retries, initWaitMs,
                   sentiments, distortionResults, rageResults, result>>
    /\ UNCHANGED scrollVars
    /\ UNCHANGED apiVars

---------------------------------------------------------------------------
(* ScrollProfiler                                                          *)

\* new ScrollProfiler() in a page that is showing or hidden
ScrollInit ==
    /\ scrollHistory = << >>
    /\ lastScrollPosition = 0
    /\ lastScrollTime = 0
    /\ isScrolling = FALSE
    /\ scrollTimeout = 0
    /\ dwellStartTime = 0
    /\ rapidScrollCount = 0
    /\ isActive = FALSE
    /\ now = TickMs
    /\ pageYOffset \in Positions
    /\ visibilityState \in {"visible", "hidden"}
    /\ timers = {}
    /\ visibilityListener = FALSE
    /\ anchorAge = "init"

\* window.setTimeout: the id handed out is one no pending timer has
newTimerId(ts) ==
    CHOOSE i \in 1 .. (Cardinality(ts) + 1) : \A t \in ts : t.id # i

setTimeout(ts, delay) == ts \cup {[id |-> newTimerId(ts), due |-> now + delay]}

clearTimeout(ts, id) == {t \in ts : t.id # id}

\* start()
Start ==
    /\ ~isActive
    /\ isActive' = TRUE
    /\ lastScrollPosition' = pageYOffset
    /\ lastScrollTime' = now
    /\ dwellStartTime' = now
    /\ visibilityListener' = TRUE
    /\ anchorAge' = "start"
    /\ UNCHANGED <<scrollHistory, isScrolling, scrollTimeout, rapidScrollCount,
                   now, pageYOffset, visibilityState, timers>>
    /\ UNCHANGED pipelineVars
    /\ UNCHANGED apiVars

\* stop(): the scroll listener goes; removeEventListener is given the unbound
\* handleVisibilityChange, which was never registered, so the bound
\* visibilitychange listener stays
Stop ==
    /\ isActive
    /\ isActive' = FALSE
    /\ IF scrollTimeout # 0
       THEN /\ timers' = clearTimeout(timers, scrollTimeout)
            /\ scrollTimeout' = 0
       ELSE UNCHANGED <<timers, scrollTimeout>>
    /\ UNCHANGED <<scrollHistory, lastScrollPosition, lastScrollTime, isScrolling,
                   dwellStartTime, rapidScrollCount, now, pageYOffset,
                   visibilityState, visibilityListener, anchorAge>>
    /\ UNCHANGED pipelineVars
    /\ UNCHANGED apiVars

\* shouldRecord asking for more than one clock step
shouldRecordCoarse(timeDelta) == timeDelta > TickMs

\* the guard `timeDelta > 0`
shouldRecord(timeDelta) == timeDelta > 0

\* `velocity > RAPID_SCROLL_THRESHOLD` for velocity = |positionDelta| /
\* timeDelta * 1000, decided without rounding
isRapid(positionDelta, timeDelta) ==
    Abs(positionDelta) * 1000 > RAPID_SCROLL_THRESHOLD * timeDelta

\* countRapid counting a velocity equal to the threshold as rapid
countRapidInclusive(count, positionDelta, timeDelta) ==
    IF Abs(positionDelta) * 1000 >= RAPID_SCROLL_THRESHOLD * timeDelta
    THEN count + 1 ELSE count

\* the counter after a scroll event
countRapid(count, positionDelta, timeDelta) ==
    IF isRapid(positionDelta, timeDelta) THEN count + 1 ELSE count

\* the ScrollMetrics sample of a scroll event (velocity in whole px/s)
scrollMetric(positionDelta, timeDelta) ==
    [velocity |-> (Abs(positionDelta) * 1000) \div timeDelta,
     direction |-> IF positionDelta > 0 THEN "down" ELSE "up",
     dwellTime |-> IF isScrolling THEN 0 ELSE now - dwellStartTime,
     rapidScrollCount |-> countRapid(rapidScrollCount, positionDelta, timeDelta),
     timestamp |-> now]

\* limitHistory dropping the newest sample (pop) instead of the oldest
limitHistoryPop(h) ==
    IF Len(h) > SCROLL_HISTORY_LIMIT THEN SubSeq(h, 1, Len(h) - 1) ELSE h

\* `if (history.length > SCROLL_HISTORY_LIMIT) history.shift()`
limitHistory(h) == IF Len(h) > SCROLL_HISTORY_LIMIT THEN Tail(h) ELSE h

\* cancelPending without the clearTimeout
cancelPendingForgotten(ts, id) == ts

\* the timers after `if (scrollTimeout) clearTimeout(scrollTimeout)`
cancelPending(ts, id) == IF id # 0 THEN clearTimeout(ts, id) ELSE ts

\* handleScroll leaving lastScrollTime where it was
handleScrollKeepsAnchor(currentPosition) ==
    LET timeDelta == now - lastScrollTime
        positionDelta == currentPosition - lastScrollPosition
        cleared == cancelPending(timers, scrollTimeout)
    IN  IF shouldRecord(timeDelta)
        THEN /\ rapidScrollCount' = countRapid(rapidScrollCount, positionDelta, timeDelta)
             /\ scrollHistory' =
                   limitHistory(Append(scrollHistory, scrollMetric(positionDelta, timeDelta)))
             /\ isScrolling' = TRUE
             /\ lastScrollPosition' = currentPosition
             /\ scrollTimeout' = newTimerId(cleared)
             /\ timers' = setTimeout(cleared, SCROLL_TIMEOUT_MS)
             /\ anchorAge' = "scroll"
             /\ UNCHANGED <<dwellStartTime, isActive, lastScrollTime>>
        ELSE UNCHANGED <<profilerVars, timers, anchorAge>>

\* handleScroll with the page at currentPosition
handleScroll(currentPosition) ==
    LET timeDelta == now - lastScrollTime
        positionDelta == currentPosition - lastScrollPosition
        cleared == cancelPending(timers, scrollTimeout)
    IN  IF shouldRecord(timeDelta)
        THEN /\ rapidScrollCount' = countRapid(rapidScrollCount, positionDelta, timeDelta)
             /\ scrollHistory' =
                   limitHistory(Append(scrollHistory, scrollMetric(positionDelta, timeDelta)))
             /\ isScrolling' = TRUE
             /\ lastScrollPosition' = currentPosition
             /\ lastScrollTime' = now
             /\ scrollTimeout' = newTimerId(cleared)
             /\ timers' = setTimeout(cleared, SCROLL_TIMEOUT_MS)
             /\ anchorAge' = "scroll"
             /\ UNCHANGED <<dwellStartTime, isActive>>
        ELSE UNCHANGED <<profilerVars, timers, anchorAge>>

\* the page is scrolled to position p (p may be the current offset: a
\* horizontal scroll) and the scroll listener, registered while the
\* profiler is started, runs
ScrollEvent(p) ==
    /\ isActive
    /\ pageYOffset' = p
    /\ handleScroll(p)
    /\ UNCHANGED <<now, visibilityState, visibilityListener>>
    /\ UNCHANGED pipelineVars
    /\ UNCHANGED apiVars

\* the page is scrolled while no scroll listener is registered
ScrollUnobserved(p) ==
    /\ ~isActive
    /\ p # pageYOffset
    /\ pageYOffset' = p
    /\ UNCHANGED <<profilerVars, now, visibilityState, timers, visibilityListener,
                   anchorAge>>
    /\ UNCHANGED pipelineVars
    /\ UNCHANGED apiVars

\* handleScrollEnd, run by a debounce timer that has come due
ScrollEnd ==
    \E t \in timers :
        /\ now >= t.due
        /\ timers' = timers \ {t}
        /\ isScrolling' = FALSE
        /\ dwellStartTime' = now
        /\ scrollTimeout' = 0
        /\ rapidScrollCount' = Max(0, rapidScrollCount - 1)
        /\ UNCHANGED <<scrollHistory, lastScrollPosition, lastScrollTime, isActive,
                       now, pageYOffset, visibilityState, visibilityListener,
                       anchorAge>>
        /\ UNCHANGED pipelineVars
        /\ UNCHANGED apiVars

\* handleVisibilityChange with the page now hidden
handleHidden ==
    /\ isScrolling' = FALSE
    /\ timers' = cancelPending(timers, scrollTimeout)
    /\ scrollTimeout' = 0
    /\ UNCHANGED <<scrollHistory, lastScrollPosition, lastScrollTime,
                   dwellStartTime, rapidScrollCount, isActive, anchorAge>>

\* handleVisible resetting the dwell clock only
handleVisibleKeepsAnchors ==
    /\ dwellStartTime' = now
    /\ UNCHANGED <<scrollHistory, lastScrollPosition, lastScrollTime, isScrolling,
                   scrollTimeout, rapidScrollCount, isActive, timers, anchorAge>>

\* handleVisibilityChange with the page now visible
handleVisible ==
    /\ dwellStartTime' = now
    /\ lastScrollTime' = now
    /\ lastScrollPosition' = pageYOffset
    /\ anchorAge' = "resume"
    /\ UNCHANGED <<scrollHistory, isScrolling, scrollTimeout, rapidScrollCount,
                   isActive, timers>>

\* the page is hidden; registered visibilitychange listeners run
Hide ==
    /\ visibilityState = "visible"
    /\ visibilityState' = "hidden"
    /\ IF visibilityListener THEN handleHidden
       ELSE UNCHANGED <<profilerVars, timers, anchorAge>>
    /\ UNCHANGED <<now, pageYOffset, visibilityListener>>
    /\ UNCHANGED pipelineVars
    /\ UNCHANGED apiVars

\* the page is shown again
Show ==
    /\ visibilityState = "hidden"
    /\ visibilityState' = "visible"
    /\ IF visibilityListener THEN handleVisible
       ELSE UNCHANGED <<profilerVars, timers, anchorAge>>
    /\ UNCHANGED <<now, pageYOffset, visibilityListener>>
    /\ UNCHANGED pipelineVars
    /\ UNCHANGED apiVars

\* time passes
Tick ==
    /\ now + TickMs <= MaxTime
    /\ now' = now + TickMs
    /\ anchorAge' = IF visibilityState = "hidden" THEN "stale" ELSE anchorAge
    /\ UNCHANGED <<profilerVars, pageYOffset, visibilityState, timers,
                   visibilityListener>>
    /\ UNCHANGED pipelineVars
    /\ UNCHANGED apiVars

---------------------------------------------------------------------------
(* The detector and the query functions before any call                    *)

\* no query has returned yet
NoAnswer == [none |-> TRUE]

\* new RealityCheckContentScript() on a supported site, initialize() not yet
\* called: the clock (Date.now(), positive) in milliseconds, the flag and the interval ids of the
\* script, whether settings.enabledPlatforms holds the platform (the field
\* starts as the empty list), the intervals the page has running, the
\* extractor's store and
\* lastExtractedTime, and the timestamps in the profiler's history;
\* new RealityCheckBackground(): the session of each tab (0: none), the
\* sessionHistory in chrome.storage.local, the handleSessionEnded calls in
\* flight, and the sessions whose handler has finished
ExtensionInit ==
    /\ script = [clock |-> StepMs, enabled |-> FALSE, isActive |-> FALSE,
                 processingInterval |-> 0, cleanupInterval |-> 0,
                 intervals |-> {}, nextInterval |-> 1,
                 extractedContent |-> {}, lastExtractedTime |-> 0,
                 scrollHistory |-> {}]
    /\ background = [sessions |-> [tab \in 1 .. MaxTabs |-> 0],
                     sessionHistory |-> << >>,
                     handlers |-> {}, ended |-> {}, nextSession |-> 1]

\* new DistortionDetector(); nothing asked
ApiInit ==
    /\ rules = InitialRules
    /\ detected = << >>
    /\ analyses = << >>
    /\ answer = NoAnswer
    /\ ExtensionInit

---------------------------------------------------------------------------
(* ScrollProfiler: isRageScrolling and getRageScrollIntensity              *)

\* getRecentMetrics at clock reading t
getRecentMetrics(h, t, sinceMs) ==
    SelectSeq(h, LAMBDA metric : metric.timestamp > t - sinceMs)

countDirectionChanges(metrics) ==
    IF Len(metrics) < 2 THEN 0
    ELSE Cardinality({i \in 2 .. Len(metrics) :
                         metrics[i].direction # metrics[i - 1].direction})

\* the samples faster than the threshold
rapidScrolls(metrics) ==
    SelectSeq(metrics, LAMBDA m : m.velocity > RAPID_SCROLL_THRESHOLD)

\* the reduce over dwellTime
totalDwellTime(metrics) == SumSeq([i \in 1 .. Len(metrics) |-> metrics[i].dwellTime])

\* isRageScrolling asking for the ratios to reach their thresholds
isRageScrollingInclusive(h, t) ==
    LET recentMetrics == getRecentMetrics(h, t, RAGE_WINDOW_MS)
        n == Len(recentMetrics)
        rapid == Len(rapidScrolls(recentMetrics))
    IN  IF n < 3 THEN FALSE
        ELSE \/ 10 * rapid >= 6 * n
             \/ countDirectionChanges(recentMetrics) > 3
             \/ (totalDwellTime(recentMetrics) < 500 * n /\ 10 * rapid >= 4 * n)

\* isRageScrolling at clock reading t; rapidScrollRatio = rapid / n and
\* avgDwellTime = total / n are compared without rounding
isRageScrolling(h, t) ==
    LET recentMetrics == getRecentMetrics(h, t, RAGE_WINDOW_MS)
        n == Len(recentMetrics)
        rapid == Len(rapidScrolls(recentMetrics))
    IN  IF n < 3 THEN FALSE
        ELSE \/ 10 * rapid > 6 * n
             \/ countDirectionChanges(recentMetrics) > 3
             \/ (totalDwellTime(recentMetrics) < 500 * n /\ 10 * rapid > 4 * n)

\* dwellTimeScore without its floor at 0
dwellTimeScoreUnfloored(total, n) == Fraction(2000 * n - total, 2000 * n)

\* dwellTimeScore = max(0, 1 - avgDwellTime / 2000) for avgDwellTime = total / n
dwellTimeScore(total, n) == Fraction(Max(0, 2000 * n - total), 2000 * n)

\* getRageScrollIntensity at clock reading t: the blend
\* 0.4 rapid/n + 0.3 changes/max(n-1,1) + 0.3 dwellTimeScore over the common
\* denominator 10 * n * max(n-1,1) * 2000 n, capped at 1
getRageScrollIntensity(h, t) ==
    LET recentMetrics == getRecentMetrics(h, t, RAGE_WINDOW_MS)
        n == Len(recentMetrics)
        rapid == Len(rapidScrolls(recentMetrics))
        changes == countDirectionChanges(recentMetrics)
        pairs == Max(n - 1, 1)
        dwell == dwellTimeScore(totalDwellTime(recentMetrics), n)
        den == 10 * n * pairs * dwell.den
        intensity == 4 * rapid * pairs * dwell.den
                       + 3 * changes * n * dwell.den
                       + 3 * dwell.num * n * pairs
    IN  IF n < 2 THEN Fraction(0, 1)
        ELSE Fraction(Min(den, intensity), den)

\* the clock reading at which the queries are made
QueryTime == 2 * RAGE_WINDOW_MS

\* time between two scroll events of a history
SampleGapMs == 2 * TickMs

\* mean dwell times of the samples of the last ten seconds
DwellTimes == {0, 499, 500, 2000, 3000}

\* A history as handleScroll leaves it: stale samples older than the
\* window (the last of them exactly RAGE_WINDOW_MS old), then n samples
\* inside it, of which the first `rapid` are faster than the threshold and
\* the others exactly at it, with a change of direction at each of the
\* first `changes` steps and a mean dwell time of `dwell` (the wait before
\* the first sample; the others follow while scrolling).  SCROLL_HISTORY_LIMIT
\* of the source is 100; these histories hold at most MaxStale + MaxSamples.
historyOf(stale, n, rapid, changes, dwell) ==
    [i \in 1 .. stale + n |->
        LET j == i - stale
        IN  [velocity |-> IF j < 1 \/ j <= rapid
                          THEN 2 * RAPID_SCROLL_THRESHOLD
                          ELSE RAPID_SCROLL_THRESHOLD,
             direction |-> IF j < 1 THEN (IF i % 2 = 0 THEN "down" ELSE "up")
                           ELSE IF Min(j, changes + 1) % 2 = 1 THEN "down" ELSE "up",
             dwellTime |-> IF j = 1 THEN dwell * n ELSE 0,
             rapidScrollCount |-> IF j < 1 THEN i ELSE stale + Min(j, rapid),
             timestamp |-> IF j < 1
                           THEN QueryTime - RAGE_WINDOW_MS - (stale - i) * SampleGapMs
                           ELSE QueryTime - (n - j) * SampleGapMs]]

Histories ==
    {historyOf(stale, n, rapid, changes, dwell) :
        stale \in 0 .. MaxStale, n \in 0 .. MaxSamples, rapid \in 0 .. MaxSamples,
        changes \in 0 .. 5, dwell \in DwellTimes}

\* a started profiler, idle, with one of the histories behind it
ProfilerQueryInit ==
    /\ PipelineInit
    /\ ApiInit
    /\ scrollHistory \in Histories
    /\ now = QueryTime
    /\ lastScrollPosition = 0
    /\ lastScrollTime = now
    /\ isScrolling = FALSE
    /\ scrollTimeout = 0
    /\ dwellStartTime = now
    /\ rapidScrollCount = 0
    /\ isActive = TRUE
    /\ pageYOffset = 0
    /\ visibilityState = "visible"
    /\ timers = {}
    /\ visibilityListener = TRUE
    /\ anchorAge = "scroll"

\* addRule putting the rule in front of the table
AddRuleInFront(rule) ==
    /\ Len(rules) < Len(InitialRules) + MaxAdded
    /\ \A i \in 1 .. Len(rules) : rules[i].ruleId # rule.ruleId
    /\ rules' = <<rule>> \o rules
    /\ UNCHANGED <<pipelineVars, scrollVars, extensionVars, detected, queryVars>>

\* addRule, with a rule whose ruleId is not in the table yet
AddRule(rule) ==
    /\ Len(rules) < Len(InitialRules) + MaxAdded
    /\ \A i \in 1 .. Len(rules) : rules[i].ruleId # rule.ruleId
    /\ rules' = Append(rules, rule)
    /\ UNCHANGED <<pipelineVars, scrollVars, extensionVars, detected, queryVars>>

UpdateRule(ruleId, enabled) ==
    /\ rules' = updateRule(rules, ruleId, enabled)
    /\ UNCHANGED <<pipelineVars, scrollVars, extensionVars, detected, queryVars>>

\* detectDistortions(text), the caller keeping what it returns or noting
\* that the call threw
DetectDistortionsCall(t) ==
    /\ Len(detected) < MaxDetected
    /\ LET threw == \E i \in 1 .. Len(rules) :
                        rules[i].enabled /\ checkRule(t, rules[i]) < 0
       IN  detected' = Append(detected,
                          [text |-> t, by |-> "detectDistortions", threw |-> threw,
                           indicators |-> IF threw THEN << >>
                                          ELSE detectDistortions(rules, t)])
    /\ UNCHANGED <<pipelineVars, scrollVars, extensionVars, rules, queryVars>>

\* detectRageIndicators(text), the caller keeping what it returns
DetectRageIndicatorsCall(t) ==
    /\ Len(detected) < MaxDetected
    /\ detected' = Append(detected,
                          [text |-> t, by |-> "detectRageIndicators", threw |-> FALSE,
                           indicators |-> detectRageIndicators(t)])
    /\ UNCHANGED <<pipelineVars, scrollVars, extensionVars, rules, queryVars>>

\* the readings analyzeSentiment hands to enhanceWithEmotionalRules
RawReadings ==
    [valence : {-100, -10, 0, 95}, arousal : {0, 50, 100}, confidence : {0, 70}]

\* a text and a raw reading, about to be enhanced
EnhancerInit ==
    /\ PipelineInit
    /\ ScrollInit
    /\ rules = InitialRules
    /\ detected = << >>
    /\ analyses = << >>
    /\ answer \in [text : TextIds \cup {Len(Catalogue) + 1, Len(Catalogue) + 2},
                    raw : RawReadings]
    /\ ExtensionInit

EnhanceCall ==
    /\ DOMAIN answer = {"text", "raw"}
    /\ answer' = [text |-> answer.text, raw |-> answer.raw,
                  enhanced |-> enhanceWithEmotionalRules(answer.text, answer.raw)]
    /\ UNCHANGED <<pipelineVars, scrollVars, extensionVars, detectorVars, analyses>>

\* the closing clamps of enhanceWithEmotionalRules applied to its result
ReclampCall ==
    /\ DOMAIN answer = {"text", "raw", "enhanced"}
    /\ answer' = [text |-> answer.text, raw |-> answer.raw, enhanced |-> answer.enhanced,
                  reclamped |->
                      [valence |-> Clamp(-100, answer.enhanced.valence, 100),
                       arousal |-> Clamp(0, answer.enhanced.arousal, 100),
                       confidence |-> answer.enhanced.confidence]]
    /\ UNCHANGED <<pipelineVars, scrollVars, extensionVars, detectorVars, analyses>>

\* an indicator list about to be handed to calculateRageRisk: up to
\* MaxIndicators indicators of the five types, of intensity 0.01, 0.5 or 1
RageRiskInit ==
    /\ PipelineInit
    /\ ScrollInit
    /\ rules = InitialRules
    /\ detected = << >>
    /\ analyses = << >>
    /\ answer \in [indicators :
                      UNION {[1 .. n ->
                                 [type : {"VERBAL_AGGRESSION", "THREAT_LANGUAGE",
                                          "PROFANITY", "CAPS_LOCK",
                                          "EXCLAMATION_SPAM"},
                                  intensity : {1, 50, 100}]] :
                             n \in 0 .. MaxIndicators}]
    /\ ExtensionInit

CalculateRageRiskCall ==
    /\ DOMAIN answer = {"indicators"}
    /\ answer' = [indicators |-> answer.indicators,
                  rageRisk |-> calculateRageRisk(answer.indicators)]
    /\ UNCHANGED <<pipelineVars, scrollVars, extensionVars, detectorVars, analyses>>

\* a caller keeps the result of an analyzeContent call
CollectAnalysis ==
    /\ Len(analyses) < MaxAnalyses
    /\ \E t \in AnalysisTexts, ms \in ProcessingTimes : \E sentiment \in Readings(t) :
          analyses' = Append(analyses, analysisOf(t, sentiment, ms))
    /\ answer' = NoAnswer
    /\ UNCHANGED <<pipelineVars, scrollVars, extensionVars, detectorVars>>

AggregateAnalysesCall ==
    /\ answer' = [aggregate |-> aggregateAnalyses(analyses)]
    /\ UNCHANGED <<pipelineVars, scrollVars, extensionVars, detectorVars, analyses>>

CalculateRiskScoreCall ==
    /\ \E i \in 1 .. Len(analyses) :
          answer' = [riskScore |-> calculateRiskScore(analyses[i]), of |-> i]
    /\ UNCHANGED <<pipelineVars, scrollVars, extensionVars, detectorVars, analyses>>

\* getDistortionSummary on all the distortions the caller holds
GetDistortionSummaryCall ==
    /\ answer' = [summary |-> getDistortionSummary(
                       Flatten([i \in 1 .. Len(analyses) |->
                                   analyses[i].cognitiveDistortions]))]
    /\ UNCHANGED <<pipelineVars, scrollVars, extensionVars, detectorVars, analyses>>

\* getAnalysisSummary of a record the caller holds (of > 0) or of their
\* aggregate (of = 0)
GetAnalysisSummaryCall ==
    /\ \E i \in 0 .. Len(analyses) :
          LET analysis ==
                  IF i = 0 THEN aggregateAnalyses(analyses)
                  ELSE [analyses[i] EXCEPT !.sentiment =
                           [valence |-> Fraction(@.valence, 1),
                            arousal |-> Fraction(@.arousal, 1),
                            confidence |-> Fraction(@.confidence, 1)],
                                           !.confidence = Fraction(@, 1)]
          IN  answer' = [analysisSummary |-> getAnalysisSummary(analysis),
                         analysis |-> analysis, of |-> i]
    /\ UNCHANGED <<pipelineVars, scrollVars, extensionVars, detectorVars, analyses>>

IsRageScrollingCall ==
    /\ answer' = [isRageScrolling |-> isRageScrolling(scrollHistory, now)]
    /\ UNCHANGED <<pipelineVars, scrollVars, extensionVars, detectorVars, analyses>>

GetRageScrollIntensityCall ==
    /\ answer' = [rageScrollIntensity |-> getRageScrollIntensity(scrollHistory, now)]
    /\ UNCHANGED <<pipelineVars, scrollVars, extensionVars, detectorVars, analyses>>

---------------------------------------------------------------------------
(* RealityCheckContentScript, on a clock of StepMs                         *)

\* initialize() on the page of a supported platform; enabled is what
\* settings.enabledPlatforms.includes(platform) gives after loadSettings
Initialize(enabled) ==
    /\ script.nextInterval < 2 * MaxInitializes
    /\ LET processing == script.nextInterval
           cleaning == script.nextInterval + 1
       IN  script' = [script EXCEPT
               !.enabled = enabled,
               !.isActive = @ \/ enabled,
               !.processingInterval = processing,
               !.cleanupInterval = cleaning,
               !.intervals = @ \cup
                   {[id |-> processing, kind |-> "processing", due |-> 0],
                    [id |-> cleaning, kind |-> "cleanup",
                     due |-> script.clock + CLEANUP_INTERVAL_MS]},
               !.nextInterval = cleaning + 1]
    /\ UNCHANGED <<pipelineVars, scrollVars, detectorVars, queryVars, background>>

StopMonitoring ==
    /\ script.isActive
    /\ script' = [script EXCEPT
           !.isActive = FALSE,
           !.intervals = {i \in @ : i.id \notin {script.processingInterval,
                                                 script.cleanupInterval}},
           !.processingInterval = 0,
           !.cleanupInterval = 0]
    /\ UNCHANGED <<pipelineVars, scrollVars, detectorVars, queryVars, background>>

\* The texts of the elements on the page, by what String.trim, toLowerCase
\* and length report: the text after lower-casing and trimming (norm), the
\* length after trimming, and the characters that are not whitespace
\* 1  "Hello World, again"
\* 2  "  hello world, again "
\* 3  "ok   then!"
\* 4  "too short"
\* 5  "          "
PageTexts ==
    <<[norm |-> "hello world, again", trimmed |-> 18, nonBlank |-> 16],
      [norm |-> "hello world, again", trimmed |-> 18, nonBlank |-> 16],
      [norm |-> "ok   then!", trimmed |-> 10, nonBlank |-> 7],
      [norm |-> "too short", trimmed |-> 9, nonBlank |-> 8],
      [norm |-> "", trimmed |-> 0, nonBlank |-> 0]>>

\* isValidContent without the comparison of texts
isValidContentById(stored, content) ==
    /\ PageTexts[content.text].trimmed >= 10
    /\ \A c \in stored : c.id # content.id

isValidContent(stored, content) ==
    /\ PageTexts[content.text].trimmed >= 10
    /\ \A c \in stored : c.id # content.id
    /\ \A c \in stored : PageTexts[c.text].norm # PageTexts[content.text].norm

\* extractContent of the started extractor comes to an element with that
\* text and stores it: the id is made of the text's hash and the timestamp;
\* returned counts the getNewContent calls that handed the item out
ExtractContent(text) ==
    /\ script.isActive
    /\ LET content == [id |-> <<text, script.clock>>, text |-> text,
                       timestamp |-> script.clock, returned |-> 0]
       IN  /\ isValidContent(script.extractedContent, content)
           /\ script' = [script EXCEPT !.extractedContent = @ \cup {content}]
    /\ UNCHANGED <<pipelineVars, scrollVars, detectorVars, queryVars, background>>

\* the started profiler records a scroll sample
RecordScroll ==
    /\ script.isActive
    /\ Cardinality(script.scrollHistory) < MaxItems
    /\ script.clock \notin script.scrollHistory
    /\ script' = [script EXCEPT !.scrollHistory = @ \cup {script.clock}]
    /\ UNCHANGED <<pipelineVars, scrollVars, detectorVars, queryVars, background>>

\* a processing interval fires: processContent, getNewContent finding items
ProcessContent(i) ==
    /\ i \in script.intervals
    /\ i.kind = "processing"
    /\ script.isActive
    /\ LET newContent == {c \in script.extractedContent :
                             c.timestamp > script.lastExtractedTime}
       IN  /\ newContent # {}
           /\ script' = [script EXCEPT
                  !.lastExtractedTime =
                      CHOOSE t \in {c.timestamp : c \in newContent} :
                          \A c \in newContent : c.timestamp <= t,
                  !.extractedContent =
                      (@ \ newContent)
                          \cup {[c EXCEPT !.returned = @ + 1] : c \in newContent}]
    /\ UNCHANGED <<pipelineVars, scrollVars, detectorVars, queryVars, background>>

\* a cleanup interval fires: clearOldContent and clearOldHistory
Cleanup(i) ==
    /\ i \in script.intervals
    /\ i.kind = "cleanup"
    /\ i.due = script.clock
    /\ LET cutoff == script.clock - RETENTION_MS
       IN  script' = [script EXCEPT
               !.extractedContent = {c \in @ : ~(c.timestamp < cutoff)},
               !.scrollHistory = {t \in @ : t > cutoff},
               !.intervals = (@ \ {i}) \cup
                   {[i EXCEPT !.due = @ + CLEANUP_INTERVAL_MS]}]
    /\ UNCHANGED <<pipelineVars, scrollVars, detectorVars, queryVars, background>>

\* time passes, once the cleanups due have run
TimePasses ==
    /\ script.clock < (MaxSteps + 1) * StepMs
    /\ \A i \in script.intervals : i.kind = "cleanup" => i.due > script.clock
    /\ script' = [script EXCEPT !.clock = @ + StepMs]
    /\ UNCHANGED <<pipelineVars, scrollVars, detectorVars, queryVars, background>>

---------------------------------------------------------------------------
(* RealityCheckBackground: sessions                                        *)

handleSessionStarted(tabId) ==
    /\ background.nextSession <= MaxSessions
    /\ background' = [background EXCEPT
           !.sessions[tabId] = background.nextSession,
           !.nextSession = @ + 1]
    /\ UNCHANGED <<pipelineVars, scrollVars, detectorVars, queryVars, script>>

\* handleSessionEnded up to the first await of storeSessionData: the session
\* of the tab is read and chrome.storage.local.get is called
handleSessionEnded(tabId) ==
    /\ background.sessions[tabId] # 0
    /\ \A h \in background.handlers : h.session # background.sessions[tabId]
    /\ background' = [background EXCEPT
           !.handlers = @ \cup {[tabId |-> tabId,
                                 session |-> background.sessions[tabId],
                                 awaits |-> "get", sessionHistory |-> << >>]}]
    /\ UNCHANGED <<pipelineVars, scrollVars, detectorVars, queryVars, script>>

\* storage.local.get answers: the handler pushes its session onto the copy
\* it received and calls storage.local.set (the cap of 100 sessions is out
\* of reach of MaxSessions)
storageGetAnswers(h) ==
    /\ h \in background.handlers
    /\ h.awaits = "get"
    /\ background' = [background EXCEPT
           !.handlers = (@ \ {h}) \cup
               {[h EXCEPT !.awaits = "set",
                          !.sessionHistory =
                              Append(background.sessionHistory, h.session)]}]
    /\ UNCHANGED <<pipelineVars, scrollVars, detectorVars, queryVars, script>>

\* storage.local.set writes the handler's list
storageSetAnswers(h) ==
    /\ h \in background.handlers
    /\ h.awaits = "set"
    /\ background' = [background EXCEPT
           !.sessionHistory = h.sessionHistory,
           !.handlers = (@ \ {h}) \cup {[h EXCEPT !.awaits = "storeSessionData"]}]
    /\ UNCHANGED <<pipelineVars, scrollVars, detectorVars, queryVars, script>>

\* handleSessionEnded after await storeSessionData: sessions.delete(tabId)
sessionDeleted(h) ==
    /\ h \in background.handlers
    /\ h.awaits = "storeSessionData"
    /\ background' = [background EXCEPT
           !.sessions[h.tabId] = 0,
           !.handlers = @ \ {h},
           !.ended = @ \cup {[tabId |-> h.tabId, session |-> h.session]}]
    /\ UNCHANGED <<pipelineVars, scrollVars, detectorVars, queryVars, script>>

handleTabRemoved(tabId) ==
    /\ background.sessions[tabId] # 0
    /\ background' = [background EXCEPT !.sessions[tabId] = 0]
    /\ UNCHANGED <<pipelineVars, scrollVars, detectorVars, queryVars, script>>

---------------------------------------------------------------------------
(* Specifications                                                          *)

PipelineNext ==
    \/ LoadSucceeds
    \/ LoadFails
    \/ AnalyzeContentCall
    \/ AnalyzeBatchCall
    \/ InitWake
    \/ Run
    \/ SentCheck
    \/ Scored
    \/ Join
    \/ Return

ScrollNext ==
    \/ Start
    \/ Stop
    \/ \E p \in Positions : ScrollEvent(p)
    \/ \E p \in Positions : ScrollUnobserved(p)
    \/ ScrollEnd
    \/ Hide
    \/ Show
    \/ Tick

ProfilerQueryNext ==
    \/ IsRageScrollingCall
    \/ GetRageScrollIntensityCall

AnalysisNext ==
    \/ CollectAnalysis
    \/ AggregateAnalysesCall
    \/ CalculateRiskScoreCall
    \/ GetDistortionSummaryCall
    \/ GetAnalysisSummaryCall

DetectorNext ==
    \/ \E rule \in CustomRules : AddRule(rule)
    \/ \E ruleId \in ToggleIds, enabled \in BOOLEAN : UpdateRule(ruleId, enabled)
    \/ \E t \in DetectorTexts : DetectDistortionsCall(t)
    \/ \E t \in DetectorTexts : DetectRageIndicatorsCall(t)

ContentScriptNext ==
    \/ \E enabled \in BOOLEAN : Initialize(enabled)
    \/ StopMonitoring
    \/ \E text \in 1 .. Len(PageTexts) : ExtractContent(text)
    \/ RecordScroll
    \/ \E i \in script.intervals : ProcessContent(i)
    \/ \E i \in script.intervals : Cleanup(i)
    \/ TimePasses

BackgroundNext ==
    \/ \E tabId \in 1 .. MaxTabs :
           \/ handleSessionStarted(tabId)
           \/ handleSessionEnded(tabId)
           \/ handleTabRemoved(tabId)
    \/ \E h \in background.handlers :
           \/ storageGetAnswers(h)
           \/ storageSetAnswers(h)
           \/ sessionDeleted(h)

Init == PipelineInit /\ ScrollInit /\ ApiInit

Next ==
    \/ PipelineNext
    \/ ScrollNext
    \/ ProfilerQueryNext
    \/ AnalysisNext
    \/ DetectorNext
    \/ EnhanceCall
    \/ ReclampCall
    \/ CalculateRageRiskCall
    \/ ContentScriptNext
    \/ BackgroundNext

\* the whole program
Spec == Init /\ [][Next]_vars

\* the pipeline next to a profiler that is never started
PipelineSpec == Init /\ [][PipelineNext]_vars

\* a step of the call in progress that waits for nothing but the event
\* loop: a timer firing, an awaited promise resuming, the classifier call
\* settling
CallStep == InitWake \/ Run \/ SentCheck \/ Scored \/ Join

\* every step of a call is taken once it can be (at most one of them is
\* enabled at a time); nothing makes a model load settle and nothing makes
\* a caller call
PipelineFairSpec == PipelineSpec /\ WF_vars(CallStep)

\* the profiler next to a pipeline that is never called
ScrollSpec == Init /\ [][ScrollNext]_vars

\* the content script of one page: initialize() calls, extraction, scrolling
\* and the two kinds of interval
ContentScriptSpec == Init /\ [][ContentScriptNext]_vars

\* the background script: session messages of the tabs, storage answers
BackgroundSpec == Init /\ [][BackgroundNext]_vars

\* calculateRageRisk on indicator lists
RageRiskSpec == RageRiskInit /\ [][CalculateRageRiskCall]_vars

\* the rule-based enhancement of a raw sentiment reading
EnhancerSpec == EnhancerInit /\ [][EnhanceCall \/ ReclampCall]_vars

\* a caller adding and toggling rules between detection calls
DetectorSpec == Init /\ [][DetectorNext]_vars

\* a caller collecting analyses and asking for aggregates, risk scores and
\* summaries
AnalysisSpec == Init /\ [][AnalysisNext]_vars

\* the rage queries on a profiler with a history behind it
ProfilerQuerySpec == ProfilerQueryInit /\ [][ProfilerQueryNext]_vars

---------------------------------------------------------------------------
(* Properties of the pipeline                                              *)

contentDone == pc = "done" /\ kind = "content"

batchDone == pc = "done" /\ kind = "batch"

\* C1: when analyzeContent returns while the sentiment model has not become
\* ready, for a text on which a rule-based detector fires, the result is a
\* record (not none) with the zero sentiment and with the detectors' outputs
\* as its distortion and rage lists.
C1_DegradedRecord ==
    (/\ contentDone
     /\ ~isReady
     /\ \/ Len(detectDistortions(InitialRules, input[1])) > 0
        \/ Len(detectRageIndicators(input[1])) > 0)
    => /\ result[1] # None
       /\ result[1].sentiment = ZeroSentiment
       /\ result[1].cognitiveDistortions = detectDistortions(InitialRules, input[1])
       /\ result[1].rageIndicators = detectRageIndicators(input[1])

\* analyzeContent has returned after the whole retry budget was spent on a
\* model that is still not ready, for a text with rage indicators
C1_Witness ==
    /\ contentDone
    /\ ~isReady
    /\ retries = MaxRetries
    /\ result[1] # None
    /\ Len(result[1].rageIndicators) > 0
    /\ result[1].sentiment = ZeroSentiment

\* C2: every analyzeContent call eventually returns, with the outputs of
\* the two rule-based detectors, whatever the model load does.
C2_ContentReturns ==
    (kind = "content" /\ pc # "idle")
    ~> (/\ contentDone
        /\ result[1] # None
        /\ result[1].cognitiveDistortions = detectDistortions(InitialRules, input[1])
        /\ result[1].rageIndicators = detectRageIndicators(input[1]))

\* C3: initialize polls at most MaxRetries times, POLL_INTERVAL_MS apart,
\* and a pipeline that is polling is eventually marked initialized.
C3_InitializeTerminates ==
    /\ [](retries <= MaxRetries /\ initWaitMs = retries * POLL_INTERVAL_MS)
    /\ [](pc = "initSleep" => <>isInitialized)

\* initialize has finished after the whole budget without a ready model
C3_Witness ==
    /\ isInitialized
    /\ ~isReady
    /\ retries = MaxRetries
    /\ pc = "run"

C5_NoneIffNothing ==
    batchDone =>
        \A i \in 1 .. Len(input) :
            LET noSentiment == i > Len(sentiments) \/ sentiments[i] = Null
                noIndicator == /\ Len(distortionResults[i]) = 0
                               /\ Len(rageResults[i]) = 0
            IN  /\ (result[i] = None) <=> (noSentiment /\ noIndicator)
                /\ (noSentiment /\ ~noIndicator)
                       => (result[i] # None /\ result[i].sentiment = ZeroSentiment)

\* a batch has returned with a none slot next to a record that has
\* indicators and the zero sentiment
C5_Witness ==
    /\ batchDone
    /\ Len(input) = 2
    /\ \E i, j \in 1 .. 2 :
          /\ result[i] = None
          /\ result[j] # None
          /\ result[j].sentiment = ZeroSentiment
          /\ Len(result[j].rageIndicators) > 0

\* C6: when the classifier fails on one item of a batch, every item it
\* does not fail on still gets its own record, with its own reading.
C6_FailureIsolated ==
    (batchDone /\ Len(sentiments) > 0) =>
        /\ Len(result) = Len(input)
        /\ \A i \in 1 .. Len(input) :
              TextOf(input[i]).model # Throws
                  => /\ result[i] # None
                     /\ result[i].sentiment = convertResult(TextOf(input[i]).model)

---------------------------------------------------------------------------
(* Properties of the scroll profiler                                       *)

\* a scroll event is delivered to handleScroll
ScrollStep == \E p \in Positions : ScrollEvent(p)

\* handleScroll sees time elapsed since the last anchor
timeElapsed == now > lastScrollTime

\* the history after the step is the history before it, less its oldest
\* sample if it was full, followed by one sample taken at the step
sampleAppended ==
    /\ Len(scrollHistory') >= 1
    /\ scrollHistory'[Len(scrollHistory')].timestamp = now
    /\ scrollHistory' =
          (IF Len(scrollHistory) = SCROLL_HISTORY_LIMIT
           THEN Tail(scrollHistory) ELSE scrollHistory)
              \o <<scrollHistory'[Len(scrollHistory')]>>

\* C7: the history never holds more than SCROLL_HISTORY_LIMIT samples, and
\* a sample appended to a full history evicts the oldest one and leaves the
\* others in arrival order.
C7_HistoryBounded ==
    /\ [](Len(scrollHistory) <= SCROLL_HISTORY_LIMIT)
    /\ [][(ScrollStep /\ timeElapsed) => sampleAppended]_vars

\* the history is full and its oldest sample was taken at the second rapid
\* scroll event: the sample of the first one has been evicted
C7_Witness ==
    /\ Len(scrollHistory) = SCROLL_HISTORY_LIMIT
    /\ scrollHistory[1].rapidScrollCount = 2
    /\ rapidScrollCount >= 2

\* C8 as stated: every scroll event delivered while the profiler is
\* started leaves it scrolling and appends one sample.
C8_EveryScrollRecords ==
    [][ScrollStep => (isScrolling' /\ sampleAppended)]_vars

\* C8 amended: a scroll event delivered with time elapsed since the last
\* anchor leaves the profiler scrolling and appends one sample; one
\* delivered with no time elapsed changes neither the profiler nor its
\* timer.
C8_TimedScrollRecords ==
    [][ScrollStep =>
          IF timeElapsed THEN isScrolling' /\ sampleAppended
          ELSE UNCHANGED <<profilerVars, timers>>]_vars

\* a scroll event has just been recorded by a started profiler
C8_Witness ==
    /\ isActive
    /\ isScrolling
    /\ Len(scrollHistory) >= 2
    /\ scrollHistory[Len(scrollHistory)].timestamp = now
    /\ scrollHistory[Len(scrollHistory)].dwellTime = 0

\* the step takes the profiler from scrolling to idle
becomesIdle == isScrolling /\ ~isScrolling'

\* the debounce window has passed since the latest recorded scroll event
quietPeriodOver ==
    /\ Len(scrollHistory) >= 1
    /\ now >= scrollHistory[Len(scrollHistory)].timestamp + SCROLL_TIMEOUT_MS

countAfterScroll ==
    IF /\ timeElapsed
       /\ Abs(pageYOffset' - lastScrollPosition) * 1000
              > RAPID_SCROLL_THRESHOLD * (now - lastScrollTime)
    THEN rapidScrollCount + 1
    ELSE rapidScrollCount

decayed == IF rapidScrollCount > 0 THEN rapidScrollCount - 1 ELSE 0

\* C10 as stated: rapidScrollCount goes up by one on each scroll event
\* faster than the threshold, goes down by one (not below 0) on every
\* transition from scrolling to idle, and is never negative.
C10_DecaysOnEveryIdle ==
    /\ [](rapidScrollCount >= 0)
    /\ [][ScrollStep => rapidScrollCount' = countAfterScroll]_vars
    /\ [][becomesIdle => rapidScrollCount' = decayed]_vars

\* C10 amended: rapidScrollCount goes up by one on each scroll event faster
\* than the threshold, goes down by one (not below 0) each time the
\* debounce timer expires, is left alone by every other step (the page
\* becoming hidden included), and is never negative.
C10_DecaysOnExpiry ==
    /\ [](rapidScrollCount >= 0)
    /\ [][ScrollStep => rapidScrollCount' = countAfterScroll]_vars
    /\ [][ScrollEnd => rapidScrollCount' = decayed]_vars
    /\ [][(~ScrollStep /\ ~ScrollEnd) => rapidScrollCount' = rapidScrollCount]_vars

\* the counter was raised by the latest recorded scroll event and lowered
\* by the expiry of the debounce timer after it
C10_Witness ==
    /\ ~isScrolling
    /\ Len(scrollHistory) >= 1
    /\ dwellStartTime >= lastScrollTime + SCROLL_TIMEOUT_MS
    /\ lastScrollTime = scrollHistory[Len(scrollHistory)].timestamp
    /\ scrollHistory[Len(scrollHistory)].rapidScrollCount = rapidScrollCount + 1
    /\ rapidScrollCount >= 1

\* the page becomes visible again and the profiler's listener runs
resumes ==
    /\ visibilityState = "hidden"
    /\ visibilityState' = "visible"
    /\ visibilityListener

\* the sample appended by the step carries the velocity of the move from
\* the anchors to the present offset and clock reading
velocityFromAnchors ==
    scrollHistory'[Len(scrollHistory')].velocity
        = (Abs(pageYOffset' - lastScrollPosition) * 1000) \div (now - lastScrollTime)

---------------------------------------------------------------------------
(* Properties of the rage queries                                          *)

\* the positions in the history of the samples of the last ten seconds
recentIndexes == {i \in 1 .. Len(scrollHistory) :
                     scrollHistory[i].timestamp > now - RAGE_WINDOW_MS}

\* those of them faster than 1000 px/s
rapidIndexes == {i \in recentIndexes : scrollHistory[i].velocity > 1000}

\* the recent samples that turn against the recent sample before them
reversalIndexes ==
    {i \in recentIndexes :
        /\ i - 1 \in recentIndexes
        /\ scrollHistory[i].direction # scrollHistory[i - 1].direction}

recentDwellTotal ==
    SumSeq([i \in 1 .. Len(scrollHistory) |->
               IF i \in recentIndexes THEN scrollHistory[i].dwellTime ELSE 0])

\* C12: isRageScrolling is false with fewer than 3 samples in the last ten
\* seconds; otherwise it is true exactly when rapid/n > 0.6, or reversals >
\* 3, or mean dwell < 500 ms and rapid/n > 0.4; 12 samples with 8 rapid and
\* 5 reversals give true.
C12_RageScrollingRule ==
    "isRageScrolling" \in DOMAIN answer =>
        LET n == Cardinality(recentIndexes)
            rapid == Cardinality(rapidIndexes)
            reversals == Cardinality(reversalIndexes)
        IN  /\ n < 3 => ~answer.isRageScrolling
            /\ n >= 3 =>
                  (answer.isRageScrolling <=>
                      \/ rapid * 10 > n * 6
                      \/ reversals > 3
                      \/ (recentDwellTotal < n * 500 /\ rapid * 10 > n * 4))
            /\ (n = 12 /\ rapid = 8 /\ reversals = 5) => answer.isRageScrolling

\* isRageScrolling has answered true for 12 samples of the last ten
\* seconds with 8 rapid ones and 5 reversals, behind samples too old to count
C12_Witness ==
    /\ "isRageScrolling" \in DOMAIN answer
    /\ answer.isRageScrolling
    /\ Cardinality(recentIndexes) = 12
    /\ Cardinality(rapidIndexes) = 8
    /\ Cardinality(reversalIndexes) = 5
    /\ Len(scrollHistory) > 12

\* C13: getRageScrollIntensity is 0 with fewer than 2 samples in the last
\* ten seconds, and always lies in [0,1].
C13_IntensityInRange ==
    "rageScrollIntensity" \in DOMAIN answer =>
        /\ answer.rageScrollIntensity.den > 0
        /\ 0 <= answer.rageScrollIntensity.num
        /\ answer.rageScrollIntensity.num <= answer.rageScrollIntensity.den
        /\ Cardinality(recentIndexes) < 2 => answer.rageScrollIntensity.num = 0

\* getRageScrollIntensity has answered from samples with a mean dwell time
\* above 2000 ms, where only the floor keeps the dwell term from being
\* negative, and the answer is above 0
C13_Witness ==
    /\ "rageScrollIntensity" \in DOMAIN answer
    /\ Cardinality(recentIndexes) >= 2
    /\ recentDwellTotal > 2000 * Cardinality(recentIndexes)
    /\ answer.rageScrollIntensity.num > 0
    /\ answer.rageScrollIntensity.num < answer.rageScrollIntensity.den

---------------------------------------------------------------------------
(* Risk score, confidence, ordering, aggregation and summary               *)

\* the record the last calculateRiskScore call was about
scored == analyses[answer.of]

\* C14: for a record with valence in [-1,1] and arousal in [0,1],
\* calculateRiskScore returns 0.3 x sentimentRisk + 0.4 x distortionRisk +
\* 0.3 x rageRisk capped at 1, with sentimentRisk = max(0, (arousal -
\* valence) / 2), and the result lies in [0,1].
C14_RiskScoreFormula ==
    "riskScore" \in DOMAIN answer =>
        LET a == scored
            contexts == [i \in 1 .. Len(a.cognitiveDistortions) |->
                            a.cognitiveDistortions[i].context]
            \* in two-hundredths, two-hundredths and two-thousandths
            sRisk == Max(0, a.sentiment.arousal - a.sentiment.valence)
            dRisk == calculateDistortionRisk(InitialRules, contexts)
            rRisk == calculateRageRisk(a.rageIndicators)
            blend == 30 * sRisk + 40 * dRisk + 3 * rRisk
        IN  (/\ a.sentiment.valence \in -100 .. 100
             /\ a.sentiment.arousal \in 0 .. 100) =>
                /\ answer.riskScore.den = 20000
                /\ answer.riskScore.num = IF blend > 20000 THEN 20000 ELSE blend
                /\ answer.riskScore.num >= 0
                /\ answer.riskScore.num <= answer.riskScore.den

\* calculateRiskScore has answered for a record whose valence exceeds its
\* arousal, so that only the floor keeps the sentiment term from being
\* negative, and which has two distortions behind a positive score
C14_Witness ==
    /\ "riskScore" \in DOMAIN answer
    /\ scored.sentiment.valence > scored.sentiment.arousal
    /\ Len(scored.cognitiveDistortions) = 2
    /\ answer.riskScore.num > 0
    /\ answer.riskScore.num < answer.riskScore.den

\* C15: the confidence of a record is the unweighted mean of the factors
\* that are present (the sentiment confidence when above 0, min(1, 0.2 x
\* count + mean severity) with distortions, min(1, 0.2 x count + mean
\* intensity) with rage indicators), 0 when none is, and lies in [0,1].
C15_ConfidenceIsMeanOfPresent ==
    \A i \in 1 .. Len(analyses) :
        LET a == analyses[i]
            ds == a.cognitiveDistortions
            rs == a.rageIndicators
            sFactor == a.sentiment.confidence
            dFactor == Min(100, 20 * Len(ds)
                          + SumSeq([k \in 1 .. Len(ds) |-> ds[k].severity]) \div Max(Len(ds), 1))
            rFactor == Min(100, 20 * Len(rs)
                          + SumSeq([k \in 1 .. Len(rs) |-> rs[k].intensity]) \div Max(Len(rs), 1))
            present == (IF sFactor > 0 THEN 1 ELSE 0)
                         + (IF Len(ds) > 0 THEN 1 ELSE 0)
                         + (IF Len(rs) > 0 THEN 1 ELSE 0)
            total == (IF sFactor > 0 THEN sFactor ELSE 0)
                       + (IF Len(ds) > 0 THEN dFactor ELSE 0)
                       + (IF Len(rs) > 0 THEN rFactor ELSE 0)
        IN  /\ present = 0 => a.confidence = 0
            /\ present > 0 =>
                  /\ a.confidence * present <= total
                  /\ total < (a.confidence + 1) * present
            /\ a.confidence \in 0 .. 100

\* a record with distortions and rage indicators but no sentiment
\* confidence: two factors present, and their mean above 0
C15_Witness ==
    \E i \in 1 .. Len(analyses) :
        /\ analyses[i].sentiment.confidence = 0
        /\ Len(analyses[i].cognitiveDistortions) > 0
        /\ Len(analyses[i].rageIndicators) > 0
        /\ analyses[i].confidence > 0

sortedBySeverity(ds) ==
    \A k \in 1 .. Len(ds) - 1 : ds[k].severity >= ds[k + 1].severity

sortedByIntensity(rs) ==
    \A k \in 1 .. Len(rs) - 1 : rs[k].intensity >= rs[k + 1].intensity

\* C16 as stated: in every record from analyzeContent, analyzeBatch or
\* aggregateAnalyses the distortions are in non-increasing order of
\* severity and the rage indicators in non-increasing order of intensity.
C16_IndicatorsSorted ==
    /\ \A i \in 1 .. Len(analyses) :
          /\ sortedBySeverity(analyses[i].cognitiveDistortions)
          /\ sortedByIntensity(analyses[i].rageIndicators)
    /\ "aggregate" \in DOMAIN answer =>
          /\ sortedBySeverity(answer.aggregate.cognitiveDistortions)
          /\ sortedByIntensity(answer.aggregate.rageIndicators)

\* where list k of the aggregate's concatenation starts
offset(lists, k) == SumSeq([j \in 1 .. k - 1 |-> Len(lists[j])])

concatenates(whole, lists) ==
    /\ Len(whole) = offset(lists, Len(lists) + 1)
    /\ \A k \in 1 .. Len(lists) : \A j \in 1 .. Len(lists[k]) :
          whole[offset(lists, k) + j] = lists[k][j]

isMean(q, values) ==
    /\ q.den > 0
    /\ q.num * Len(values) = SumSeq(values) * q.den

\* C17: aggregateAnalyses of an empty list is the zero-valued record; of a
\* non-empty list it is the element-wise mean of the sentiment fields, the
\* concatenation in input order, duplicates kept, of the distortion and
\* rage lists, the mean of the confidences and the sum of the processing
\* times.
C17_AggregateAnalyses ==
    "aggregate" \in DOMAIN answer =>
        LET r == answer.aggregate
            n == Len(analyses)
            of(f(_)) == [i \in 1 .. n |-> f(analyses[i])]
            valence(a) == a.sentiment.valence
            arousal(a) == a.sentiment.arousal
            sentimentConfidence(a) == a.sentiment.confidence
            confidence(a) == a.confidence
            distortions(a) == a.cognitiveDistortions
            rage(a) == a.rageIndicators
            processingTime(a) == a.processingTime
        IN  /\ n = 0 =>
                  /\ r.sentiment.valence.num = 0
                  /\ r.sentiment.arousal.num = 0
                  /\ r.sentiment.confidence.num = 0
                  /\ r.cognitiveDistortions = << >>
                  /\ r.rageIndicators = << >>
                  /\ r.confidence.num = 0
                  /\ r.processingTime = 0
            /\ n > 0 =>
                  /\ isMean(r.sentiment.valence, of(valence))
                  /\ isMean(r.sentiment.arousal, of(arousal))
                  /\ isMean(r.sentiment.confidence, of(sentimentConfidence))
                  /\ concatenates(r.cognitiveDistortions, of(distortions))
                  /\ concatenates(r.rageIndicators, of(rage))
                  /\ isMean(r.confidence, of(confidence))
                  /\ r.processingTime = SumSeq(of(processingTime))

\* aggregateAnalyses has answered for two records that took different
\* times: the same distortion is in the aggregate twice
C17_Witness ==
    /\ "aggregate" \in DOMAIN answer
    /\ Len(analyses) = 2
    /\ analyses[1].processingTime # analyses[2].processingTime
    /\ Len(answer.aggregate.cognitiveDistortions) = 2
    /\ answer.aggregate.cognitiveDistortions[1] = answer.aggregate.cognitiveDistortions[2]
    /\ Len(answer.aggregate.rageIndicators) > 0

without(rs, ruleId) == SelectSeq(rs, LAMBDA rule : rule.ruleId # ruleId)

\* the rule called ruleId is in the table, switched on or off as said
switched(rs, ruleId, enabled) ==
    \E i \in 1 .. Len(rs) : rs[i].ruleId = ruleId /\ rs[i].enabled = enabled

\* no detectDistortions call on table rs emits an indicator from the rule
silent(rs, ruleId) ==
    \A t \in TextIds : detectDistortions(rs, t) = detectDistortions(without(rs, ruleId), t)

\* every detectDistortions call on table rs emits the rule's indicator for
\* a text its pattern matches, next to those of the other rules
fires(rs, ruleId) ==
    \A t \in TextIds : \A i \in 1 .. Len(rs) :
        (rs[i].ruleId = ruleId /\ checkRule(t, rs[i]) > 0) =>
            LET ds == detectDistortions(rs, t)
            IN  /\ Len(ds) = Len(detectDistortions(without(rs, ruleId), t)) + 1
                /\ \E k \in 1 .. Len(ds) :
                      /\ ds[k].type = rs[i].category
                      /\ ds[k].keywords = checkRule(t, rs[i])
                      /\ ds[k].severity =
                            Min(100, rs[i].weight + Min(10 * checkRule(t, rs[i]), 50))

C19_SummaryCountsEveryCategory ==
    "summary" \in DOMAIN answer =>
        LET ds == Flatten([i \in 1 .. Len(analyses) |-> analyses[i].cognitiveDistortions])
        IN  /\ DOMAIN answer.summary.typeCount =
                  {"PERSECUTION", "GRANDIOSITY", "CONSPIRACY", "CATASTROPHIZING",
                   "ALL_OR_NOTHING", "MIND_READING", "FORTUNE_TELLING"}
            /\ Cardinality(DOMAIN answer.summary.typeCount) = 7
            /\ \A c \in DOMAIN answer.summary.typeCount :
                  answer.summary.typeCount[c] =
                      Cardinality({k \in 1 .. Len(ds) : ds[k].type = c})

\* getDistortionSummary has answered for a list with two indicators of
\* one category and none of another
C19_Witness ==
    /\ "summary" \in DOMAIN answer
    /\ answer.summary.typeCount["PERSECUTION"] = 2
    /\ answer.summary.typeCount["GRANDIOSITY"] = 0

---------------------------------------------------------------------------
(* Rule table, short texts, the enhancer, retention and sessions           *)

\* C30 as stated: in every reachable state of the ScrollProfiler isScrolling
\* is true only while a debounce timer is pending.
C30_ScrollingOnlyWithTimer ==
    isScrolling => (scrollTimeout # 0 /\ \E t \in timers : t.id = scrollTimeout)

\* C21: addRule appends the new rule at the end of the table and changes
\* nothing else: every rule present before is still there, in the same
\* order and with the same enabled flag.
C21_AddRuleAppends ==
    [][\A rule \in CustomRules : AddRule(rule) =>
          /\ Len(rules') = Len(rules) + 1
          /\ rules'[Len(rules')] = rule
          /\ \A i \in 1 .. Len(rules) : rules'[i] = rules[i]
          /\ detected' = detected]_vars

\* two rules have been added behind the 18 built-in ones, one of which had
\* been switched off before
C21_Witness ==
    /\ Len(rules) = Len(InitialRules) + 2
    /\ \A i \in 1 .. Len(InitialRules) : rules[i].ruleId = InitialRules[i].ruleId
    /\ ~rules[1].enabled
    /\ rules[Len(InitialRules) + 1].ruleId = "custom_shout"
    /\ rules[Len(InitialRules) + 2].ruleId = "custom_watching"

\* C26 as stated: for each enabled rule with matchCount >= 1 matches in the
\* text, the severity of the emitted indicator is min(1, ruleWeight +
\* min(0.1 x (matchCount - 1), 0.5)).
C26_SeverityFormula ==
    [][(Len(detected') > Len(detected)
          /\ detected'[Len(detected')].by = "detectDistortions") =>
          LET returned == detected'[Len(detected')]
          IN  \A i \in 1 .. Len(rules) :
                  LET matchCount == checkRule(returned.text, rules[i])
                  IN  (rules[i].enabled /\ matchCount >= 1) =>
                        \E k \in 1 .. Len(returned.indicators) :
                            /\ returned.indicators[k].type = rules[i].category
                            /\ returned.indicators[k].keywords = matchCount
                            /\ returned.indicators[k].severity =
                                  Min(100, rules[i].weight + Min(10 * (matchCount - 1), 50))]_vars

\* what the detection call of this step returned
returned == detected'[Len(detected')]

\* C22: when the pattern of a rule fails to compile, detectDistortions
\* skips only that rule for that call and still returns the indicators of
\* all other enabled matching rules; no exception reaches the caller.
C22_BrokenRuleSkipped ==
    [][(Len(detected') > Len(detected) /\ returned.by = "detectDistortions") =>
          /\ ~returned.threw
          /\ returned.indicators
                = detectDistortions(without(rules, "custom_broken"), returned.text)]_vars

\* custom_broken was added before custom_watching, and a detectDistortions
\* call made with both in the table returned the indicators of
\* persecution_watching and custom_watching
C22_Witness ==
    /\ Len(rules) = Len(InitialRules) + 2
    /\ rules[Len(InitialRules) + 1].ruleId = "custom_broken"
    /\ rules[Len(InitialRules) + 1].enabled
    /\ \E i \in 1 .. Len(detected) :
          /\ detected[i].by = "detectDistortions"
          /\ ~detected[i].threw
          /\ Len(detected[i].indicators) = 2
          /\ detected[i].indicators[1].type = "MIND_READING"
          /\ detected[i].indicators[2].type = "PERSECUTION"

\* C23 as stated: for any text shorter than 10 characters or of whitespace
\* only, detectRageIndicators and detectDistortions return empty lists
\* without raising an error.
C23_ShortTextNothingToAnalyze ==
    [][(Len(detected') > Len(detected)
          /\ (TextOf(returned.text).chars < 10 \/ TextOf(returned.text).blank)) =>
          /\ ~returned.threw
          /\ returned.indicators = << >>]_vars

\* C24: for every text and every raw reading the enhancer returns a reading
\* whose confidence is the raw confidence, whose valence lies in [-1,1] and
\* whose arousal lies in [0,1]; applying the clamps again does not change
\* it.
C24_EnhancerClampsAndKeepsConfidence ==
    /\ "enhanced" \in DOMAIN answer =>
          /\ answer.enhanced.confidence = answer.raw.confidence
          /\ answer.enhanced.valence \in -100 .. 100
          /\ answer.enhanced.arousal \in 0 .. 100
    /\ "reclamped" \in DOMAIN answer => answer.reclamped = answer.enhanced

\* a reading of arousal 1 and confidence 0.7 has been enhanced for a text
\* with a high-arousal word, the arousal held at 1 by the clamp, and the
\* clamps have been applied again
C24_Witness ==
    /\ "reclamped" \in DOMAIN answer
    /\ answer.raw.arousal = 100
    /\ answer.raw.confidence = 70
    /\ TextOf(answer.text).highArousal > 0
    /\ answer.enhanced.arousal = 100
    /\ answer.enhanced.confidence = 70

\* C25: stored data is kept to a 5-minute rolling window: while the content
\* script is initialized, its cleanup interval running and the cleanups due
\* done, the extractor's store holds no item and the profiler's history no
\* sample older than 5 minutes.
C25_FiveMinuteWindow ==
    (/\ script.cleanupInterval # 0
     /\ \A i \in script.intervals : i.kind = "cleanup" => i.due > script.clock)
        => /\ \A c \in script.extractedContent :
                   script.clock - c.timestamp <= RETENTION_MS
           /\ \A t \in script.scrollHistory : script.clock - t <= RETENTION_MS

\* C29: after any sequence of initialize() calls at most one processing
\* interval and at most one cleanup interval are running, and stopMonitoring
\* cancels every interval that was started.
C29_OneIntervalOfAKind ==
    [][/\ \A k \in {"processing", "cleanup"} :
              Cardinality({i \in script'.intervals : i.kind = k}) <= 1
       /\ StopMonitoring => script'.intervals = {}]_vars

\* C27: a session registered for a tab leaves the active-session map only
\* by a SESSION_ENDED for that session or the removal of the tab (or gives
\* way to a newer session of the tab): a handleSessionEnded that was
\* awaiting storage never deletes a session started after it began.
C27_SessionStaysUntilEnded ==
    [][\A tabId \in 1 .. MaxTabs :
          (/\ background.sessions[tabId] # 0
           /\ background'.sessions[tabId] # background.sessions[tabId])
              => \/ handleTabRemoved(tabId)
                 \/ handleSessionStarted(tabId)
                 \/ \E h \in background.handlers :
                        /\ h.session = background.sessions[tabId]
                        /\ sessionDeleted(h)]_vars

\* C28: once the handlers have finished, two sessions ended for different
\* tabs are both in the stored sessionHistory, however the handlers
\* interleaved at the storage reads and writes.
C28_EndedSessionsStored ==
    background.handlers = {} =>
        \A a, b \in background.ended :
            a.tabId # b.tabId =>
                \E i, j \in 1 .. Len(background.sessionHistory) :
                    /\ background.sessionHistory[i] = a.session
                    /\ background.sessionHistory[j] = b.session

---------------------------------------------------------------------------
(* The analysis summary, new content, batches of one and the store        *)

\* C32: getAnalysisSummary reports low for a risk score below 0.4, medium
\* from 0.4 to 0.7 inclusive and high above 0.7 (on the records of
\* analyzeContent, whose risk score calculateRiskScore gives over 20000).
C32_RiskLevelThresholds ==
    ("analysisSummary" \in DOMAIN answer /\ answer.of > 0) =>
        LET riskScore == calculateRiskScore(analyses[answer.of]).num
        IN  answer.analysisSummary.riskLevel =
                IF riskScore < 8000 THEN "low"
                ELSE IF riskScore <= 14000 THEN "medium"
                ELSE "high"

\* C33: the primary concerns of every record, an aggregate included, are
\* the category of a highest-severity distortion of the record (if it has
\* a distortion), then the aggressive-language concern (if it has a rage
\* indicator), then the high-intensity concern (if arousal > 0.8).
C33_PrimaryConcerns ==
    "analysisSummary" \in DOMAIN answer =>
        LET ds == answer.analysis.cognitiveDistortions
            arousal == answer.analysis.sentiment.arousal
            others ==
                (IF Len(answer.analysis.rageIndicators) > 0
                 THEN <<"aggressive language patterns">> ELSE << >>)
                \o (IF arousal.num > 80 * arousal.den
                    THEN <<"high emotional intensity">> ELSE << >>)
        IN  IF ds = << >>
            THEN answer.analysisSummary.primaryConcerns = others
            ELSE \E i \in 1 .. Len(ds) :
                    /\ \A j \in 1 .. Len(ds) : ds[j].severity <= ds[i].severity
                    /\ answer.analysisSummary.primaryConcerns = <<ds[i].type>> \o others

\* C34: calculateRageRisk is 0 for an empty list and otherwise
\* min(1, (sum of intensity x typeWeight) / 2), with typeWeight threat 1.0,
\* verbal 0.9, profanity 0.6, caps 0.4, exclamation 0.3; for a single
\* indicator it never exceeds 0.5.  (Intensities in hundredths, weights in
\* tenths, the risk in two-thousandths.)
C34_RageRiskFormula ==
    "rageRisk" \in DOMAIN answer =>
        LET indicators == answer.indicators
            typeWeight == [THREAT_LANGUAGE |-> 10, VERBAL_AGGRESSION |-> 9,
                           PROFANITY |-> 6, CAPS_LOCK |-> 4, EXCLAMATION_SPAM |-> 3]
            total == SumSeq([i \in 1 .. Len(indicators) |->
                                indicators[i].intensity * typeWeight[indicators[i].type]])
        IN  /\ indicators = << >> => answer.rageRisk = 0
            /\ indicators # << >> =>
                   \* rageRisk / 2000 = min(1, (total / 1000) / 2)
                   answer.rageRisk = IF total > 2000 THEN 2000 ELSE total
            /\ Len(indicators) = 1 => answer.rageRisk <= 1000

\* the risk of a single threat indicator of intensity 1 is 0.5, and the
\* risk of three of them is held at 1
C34_Witness ==
    /\ "rageRisk" \in DOMAIN answer
    /\ \/ /\ answer.indicators = <<[type |-> "THREAT_LANGUAGE", intensity |-> 100]>>
          /\ answer.rageRisk = 1000
       \/ /\ Len(answer.indicators) = 3
          /\ \A i \in 1 .. 3 : answer.indicators[i].intensity = 100
                                  /\ answer.indicators[i].type = "THREAT_LANGUAGE"
          /\ answer.rageRisk = 2000

\* C35: across successive getNewContent calls every stored item is returned
\* by exactly one call: no item has been returned twice, and an item not
\* yet returned is still ahead of lastExtractedTime, so that the next call
\* returns it, also when it was stored after a call at the timestamp that
\* call returned last.
C35_ReturnedExactlyOnce ==
    \A c \in script.extractedContent :
        /\ c.returned <= 1
        /\ c.returned = 0 => c.timestamp > script.lastExtractedTime

\* C38 as stated: the store never holds two items with the same id or the
\* same text after lower-casing and trimming, and every stored item has at
\* least 10 characters that are not blank.
C38_StoreDistinctAndTenNonBlank ==
    /\ \A c, d \in script.extractedContent :
           c # d => /\ c.id # d.id
                    /\ PageTexts[c.text].norm # PageTexts[d.text].norm
    /\ \A c \in script.extractedContent : PageTexts[c.text].nonBlank >= 10

\* C38, amended: the store never holds two items with the same id or the
\* same text after lower-casing and trimming, and the text of every stored
\* item is at least 10 characters long after trimming.
C38_StoreDistinctAndTenTrimmed ==
    /\ \A c, d \in script.extractedContent :
           c # d => /\ c.id # d.id
                    /\ PageTexts[c.text].norm # PageTexts[d.text].norm
    /\ \A c \in script.extractedContent : PageTexts[c.text].trimmed >= 10

\* after a cleanup the store holds two items, one of them stored since,
\* one of exactly 10 characters
C38_Witness ==
    /\ Cardinality(script.extractedContent) = 2
    /\ \E c \in script.extractedContent : PageTexts[c.text].trimmed = 10
    /\ \E c \in script.extractedContent :
           c.timestamp >= StepMs + CLEANUP_INTERVAL_MS
    /\ \E i \in script.intervals :
           i.kind = "cleanup" /\ i.due > StepMs + CLEANUP_INTERVAL_MS


\* C36: a batch of one item gives the record analyzeContent gives for the
\* item. Stated for a finished analyzeBatch call of one item whose classifier
\* call was made, in an analyzer that is ready: the slot is none exactly when
\* analyzeContent returns none, and otherwise has the same sentiment, the same
\* distortion indicators, the same rage indicators and the same confidence.
C36_BatchOfOneAgreesWithContent ==
    (pc = "done" /\ kind = "batch" /\ Len(input) = 1 /\ Len(sentiments) = 1
         /\ isReady /\ pipeline # "null")
    => LET x == input[1]
           single == contentRecord(
                         IF TextOf(x).blank THEN Null ELSE scoreOne(x),
                         distortionsOf[x], rageIndicatorsOf[x])
       IN  result[1] = single


\* C37: with a clock that never goes back, the samples of the profiler's
\* history have strictly increasing timestamps in the order they are stored,
\* after any sequence of scroll events, stop / start and hide / show; a
\* scroll event with no time elapsed since the last anchor (the last
\* recorded sample, start or resume) appends no sample.
C37_TimestampsStrictlyIncrease ==
    /\ [](\A i \in 1 .. Len(scrollHistory) - 1 :
             scrollHistory[i].timestamp < scrollHistory[i + 1].timestamp)
    /\ [][(now = lastScrollTime /\ \E p \in Positions : ScrollEvent(p))
             => scrollHistory' = scrollHistory]_vars

\* two samples are stored and a scroll event has just been ignored: the
\* page is at a position the started profiler has not taken as its anchor,
\* at the clock reading of the anchor
C37_Witness ==
    /\ isActive
    /\ Len(scrollHistory) >= 2
    /\ now = lastScrollTime
    /\ pageYOffset # lastScrollPosition


\* C31: once initialize() has read settings whose enabledPlatforms does not
\* hold the platform, monitoring is inactive (scroll profiler and extractor
\* stopped), and no getNewContent result is sent on while they stay so.
C31_DisabledPlatformStopsMonitoring ==
    /\ [](~script.enabled => ~script.isActive)
    /\ [][~script.enabled => \A i \in script.intervals : ~ProcessContent(i)]_vars

=============================================================================
